---- MODULE Spec2Model ----
(***************************************************************************)
(* A model of the election scraper: the edge function                      *)
(* supabase/functions/scrape-election-data/index.ts (request handler,      *)
(* scrapeABCNews strategy chain, parsers, primitive extractors,            *)
(* removeDuplicates) and the client src/services/scraper.ts                *)
(* (ScraperService.scrapeAllSources with its Promise.race timeout).        *)
(*                                                                         *)
(* JavaScript strings are TLA+ strings (Len, SubSeq and \o act on them).   *)
(* A JavaScript value is a tagged record: [t |-> "str", s |-> ...],        *)
(* [t |-> "num", n |-> ...] (a finite number, held in tenths),             *)
(* [t |-> "nan"], [t |-> "inf"], [t |-> "null"], [t |-> "undef"],          *)
(* [t |-> "arr", items |-> ...], [t |-> "obj", kv |-> ...].  A function    *)
(* that can throw returns [t |-> "throw", error |-> ...] instead.          *)
(***************************************************************************)
EXTENDS Integers, Sequences, FiniteSets, TLC

(***************************************************************************)
(* Bounds of the model.                                                    *)
(***************************************************************************)
MaxStrLen == 3
MaxDedupLen == 3
MaxItems == 2
MaxProgress == 2

(***************************************************************************)
(* JavaScript values.                                                      *)
(***************************************************************************)
JStr(s) == [t |-> "str", s |-> s]
\* a finite number; n is the value in tenths (543 stands for 54.3)
JNum(n) == [t |-> "num", n |-> n]
JInt(i) == JNum(i * 10)
JNaN == [t |-> "nan"]
JInf == [t |-> "inf"]
JNull == [t |-> "null"]
JUndef == [t |-> "undef"]
JThrow(e) == [t |-> "throw", error |-> e]

\* typeof v === 'number'
IsNumber(v) == v.t \in {"num", "nan", "inf"}

(***************************************************************************)
(* String helpers: the pieces of String.prototype.match the extractors     *)
(* use, computed character by character.                                   *)
(***************************************************************************)
Digits == {"0", "1", "2", "3", "4", "5", "6", "7", "8", "9"}

CharAt(s, i) == SubSeq(s, i, i)

IsDigit(c) == c \in Digits

DigitVal(c) ==
  CASE c = "0" -> 0 [] c = "1" -> 1 [] c = "2" -> 2 [] c = "3" -> 3
    [] c = "4" -> 4 [] c = "5" -> 5 [] c = "6" -> 6 [] c = "7" -> 7
    [] c = "8" -> 8 [] c = "9" -> 9

\* the least index i >= from with a character of set cs at i, or 0
RECURSIVE FirstIn(_, _, _)
FirstIn(s, cs, from) ==
  IF from > Len(s) THEN 0
  ELSE IF CharAt(s, from) \in cs THEN from
  ELSE FirstIn(s, cs, from + 1)

\* the end of the maximal run of characters of cs that starts at from
\* (from - 1 when the run is empty)
RECURSIVE RunEnd(_, _, _)
RunEnd(s, cs, from) ==
  IF from > Len(s) \/ CharAt(s, from) \notin cs THEN from - 1
  ELSE RunEnd(s, cs, from + 1)

\* s.replace(/,/g, '')
RECURSIVE StripCommas(_)
StripCommas(s) ==
  IF s = "" THEN ""
  ELSE IF Head(s) = "," THEN StripCommas(Tail(s))
  ELSE Head(s) \o StripCommas(Tail(s))

\* the value of a string of decimal digits
RECURSIVE DigitsValue(_)
DigitsValue(s) ==
  IF s = "" THEN 0
  ELSE DigitsValue(SubSeq(s, 1, Len(s) - 1)) * 10 + DigitVal(CharAt(s, Len(s)))

\* parseInt(s, 10) of a string of digits: NaN for the empty string
parseInt(s) == IF s = "" THEN JNaN ELSE JInt(DigitsValue(s))

\* parseFloat of an optional sign, digits, an optional "." and digits,
\* in tenths (fraction digits after the first are below the model's
\* resolution)
parseFloat(s) ==
  LET neg == s # "" /\ Head(s) = "-"
      body == IF s # "" /\ Head(s) \in {"+", "-"} THEN Tail(s) ELSE s
      ip == RunEnd(body, Digits, 1)
      whole == DigitsValue(SubSeq(body, 1, ip))
      hasFrac == ip + 2 <= Len(body) /\ CharAt(body, ip + 1) = "."
                 /\ IsDigit(CharAt(body, ip + 2))
      tenths == IF hasFrac THEN DigitVal(CharAt(body, ip + 2)) ELSE 0
      mag == whole * 10 + tenths
  IN IF ip = 0 THEN JNaN ELSE JNum(IF neg THEN 0 - mag ELSE mag)

\* x || 0 on a number: NaN and 0 are falsy
OrZero(v) == IF v.t = "nan" \/ (v.t = "num" /\ v.n = 0) THEN JNum(0) ELSE v

\* value.toString(): null and undefined have no properties, a plain object
\* gives "[object Object]"
toString(v) ==
  CASE v.t = "str" -> v
    [] v.t \in {"null", "undef"} -> JThrow("TypeError")
    [] v.t = "obj" -> JStr("[object Object]")

(***************************************************************************)
(* Primitive extractors, index.ts 1059-1087.                               *)
(***************************************************************************)
\* Math.floor
MathFloor(v) == IF v.t = "num" THEN JNum((v.n \div 10) * 10) ELSE v

extractVotes(text) ==
  IF IsNumber(text) THEN MathFloor(text)
  ELSE LET str == toString(text) IN
    IF str.t = "throw" THEN str
    ELSE LET b == FirstIn(str.s, Digits \cup {","}, 1) IN
      IF b = 0 THEN JNum(0)
      ELSE LET e == RunEnd(str.s, Digits \cup {","}, b) IN
        OrZero(parseInt(StripCommas(SubSeq(str.s, b, e))))

\* the match of /(\d+\.?\d*)/ that starts at the digit at index b
DecimalAt(s, b) ==
  LET e1 == RunEnd(s, Digits, b)
      e2 == IF e1 + 1 <= Len(s) /\ CharAt(s, e1 + 1) = "." THEN e1 + 1 ELSE e1
      e3 == IF e2 > e1 THEN RunEnd(s, Digits, e2 + 1) ELSE e2
  IN SubSeq(s, b, e3)

extractPercentage(text) ==
  IF IsNumber(text) THEN text
  ELSE LET str == toString(text) IN
    IF str.t = "throw" THEN str
    ELSE LET b == FirstIn(str.s, Digits, 1) IN
      IF b = 0 THEN JNum(0)
      ELSE OrZero(parseFloat(DecimalAt(str.s, b)))

extractSwing(text) ==
  IF IsNumber(text) THEN text
  ELSE LET str == toString(text) IN
    IF str.t = "throw" THEN str
    ELSE LET b == FirstIn(str.s, Digits, 1) IN
      IF b = 0 THEN JNum(0)
      ELSE LET signed == b > 1 /\ CharAt(str.s, b - 1) \in {"+", "-"}
               sign == IF signed THEN CharAt(str.s, b - 1) ELSE ""
           IN OrZero(parseFloat(sign \o DecimalAt(str.s, b)))

(***************************************************************************)
(* Deduplicator, index.ts 1118-1128.  The Set of the source holds one      *)
(* string per member, its three names joined by "-".                       *)
(***************************************************************************)
memberKey(member) ==
  member.first_name \o "-" \o member.last_name \o "-" \o member.electorate_name

\* members.filter(...) with the Set seen threaded through the calls
RECURSIVE removeDuplicatesFrom(_, _)
removeDuplicatesFrom(members, seen) ==
  IF members = <<>> THEN <<>>
  ELSE LET member == Head(members)
           key == memberKey(member)
       IN IF key \in seen
          THEN removeDuplicatesFrom(Tail(members), seen)
          ELSE <<member>> \o removeDuplicatesFrom(Tail(members), seen \cup {key})

removeDuplicates(members) == removeDuplicatesFrom(members, {})

(***************************************************************************)
(* JSON payloads.  An array holds the sequence of its elements, an object  *)
(* the sequence of its <<key, value>> pairs in insertion order.            *)
(***************************************************************************)
JArr(items) == [t |-> "arr", items |-> items]
JObj(kv) == [t |-> "obj", kv |-> kv]

\* the truth value of v in a condition and in v || w
Truthy(v) ==
  CASE v.t = "str" -> v.s # ""
    [] v.t = "num" -> v.n # 0
    [] v.t = "inf" -> TRUE
    [] v.t \in {"arr", "obj", "function"} -> TRUE
    [] OTHER -> FALSE

\* v || w
Or(v, w) == IF Truthy(v) THEN v ELSE w

RECURSIVE LookupKV(_, _)
LookupKV(kv, key) ==
  IF kv = <<>> THEN JUndef
  ELSE IF Head(kv)[1] = key THEN Head(kv)[2]
  ELSE LookupKV(Tail(kv), key)

\* v.key, for a v that is neither null nor undefined
Get(v, key) == IF v.t = "obj" THEN LookupKV(v.kv, key) ELSE JUndef

\* Object.values(obj)
ObjectValues(v) == IF v.t = "obj" THEN [i \in 1..Len(v.kv) |-> v.kv[i][2]] ELSE <<>>

\* typeof v === 'object' of a truthy v
IsObject(v) == v.t \in {"arr", "obj"}

\* v1 || v2 || ... over the properties keys of obj, then the default
RECURSIVE FirstTruthy(_, _, _)
FirstTruthy(obj, keys, default) ==
  IF keys = <<>> THEN default
  ELSE IF Truthy(Get(obj, Head(keys))) THEN Get(obj, Head(keys))
  ELSE FirstTruthy(obj, Tail(keys), default)

\* a function value, such as the properties an object literal inherits
JFunction == [t |-> "function"]

\* the names every object literal inherits from Object.prototype
ObjectPrototypeKeys ==
  {"constructor", "toString", "toLocaleString", "valueOf", "hasOwnProperty",
   "isPrototypeOf", "propertyIsEnumerable"}

\* table[key] for an object literal table and a string key: the own entry,
\* else the inherited property, else undefined
LiteralLookup(table, key) ==
  LET own == LookupKV(table, key) IN
    IF own # JUndef THEN own
    ELSE IF key \in ObjectPrototypeKeys THEN JFunction
    ELSE JUndef

\* a string value is held in a record as its text
Text(v) == IF v.t = "str" THEN v.s ELSE v

(***************************************************************************)
(* Names: winnerName.trim().split(' '), index.ts 441-443.                  *)
(***************************************************************************)
RECURSIVE TrimLeft(_)
TrimLeft(s) == IF s # "" /\ Head(s) = " " THEN TrimLeft(Tail(s)) ELSE s

RECURSIVE TrimRight(_)
TrimRight(s) ==
  IF s # "" /\ CharAt(s, Len(s)) = " " THEN TrimRight(SubSeq(s, 1, Len(s) - 1)) ELSE s

Trim(s) == TrimRight(TrimLeft(s))

\* s.split(' '): the pieces between single spaces, empty pieces included
RECURSIVE SplitSpace(_)
SplitSpace(s) ==
  LET i == FirstIn(s, {" "}, 1) IN
    IF i = 0 THEN <<s>>
    ELSE <<SubSeq(s, 1, i - 1)>> \o SplitSpace(SubSeq(s, i + 1, Len(s)))

\* parts.join(' ')
RECURSIVE JoinSpace(_)
JoinSpace(parts) ==
  IF parts = <<>> THEN ""
  ELSE IF Len(parts) = 1 THEN parts[1]
  ELSE parts[1] \o " " \o JoinSpace(Tail(parts))

(***************************************************************************)
(* Party names, index.ts 720-784, and short codes, index.ts 1089-1116.     *)
(***************************************************************************)
Entry(key, value) == <<key, JStr(value)>>

\* a table that sends the alias Labor to another alias
canonicalNames_Chained ==
  <<Entry("Labor Party", "Australian Labor Party"),
    Entry("Labor", "Labor Party"),
    Entry("ALP", "Australian Labor Party"),
    Entry("Australian Labor Party", "Australian Labor Party")>>

\* index.ts 732-773
canonicalNames ==
  <<Entry("Labor Party", "Australian Labor Party"),
    Entry("Labor", "Australian Labor Party"),
    Entry("ALP", "Australian Labor Party"),
    Entry("Australian Labor Party", "Australian Labor Party"),
    Entry("Liberal National Party", "Liberal National Party"),
    Entry("Liberal National", "Liberal National Party"),
    Entry("LNP", "Liberal National Party"),
    Entry("Liberal Party", "Liberal Party"),
    Entry("Liberal", "Liberal Party"),
    Entry("LIB", "Liberal Party"),
    Entry("Country Liberal Party", "Country Liberal Party"),
    Entry("Country Liberal", "Country Liberal Party"),
    Entry("CLP", "Country Liberal Party"),
    Entry("The Greens", "Australian Greens"),
    Entry("Australian Greens", "Australian Greens"),
    Entry("Greens", "Australian Greens"),
    Entry("GRN", "Australian Greens"),
    Entry("One Nation", "Pauline Hanson's One Nation"),
    Entry("Pauline Hanson's One Nation", "Pauline Hanson's One Nation"),
    Entry("PHON", "Pauline Hanson's One Nation"),
    Entry("ON", "Pauline Hanson's One Nation"),
    Entry("Katter's Australian Party", "Katter's Australian Party"),
    Entry("KAP", "Katter's Australian Party"),
    Entry("Independent", "Independent"),
    Entry("IND", "Independent")>>

\* canonicalNames[rawPartyName]: a number or an object as key is no key of
\* the table
canonicalOf(rawPartyName) ==
  CASE rawPartyName.t = "str" -> LiteralLookup(canonicalNames, rawPartyName.s)
    [] rawPartyName.t \in {"num", "obj"} -> JUndef

extractPartyName(partyData) ==
  LET rawPartyName ==
        IF partyData.t = "str" THEN partyData
        ELSE IF partyData.t \in {"obj", "arr"}
        THEN FirstTruthy(partyData, <<"name", "short", "fullName">>, JStr("Independent"))
        ELSE JStr("Independent")
      canonical == canonicalOf(rawPartyName)
  IN IF Truthy(canonical) THEN canonical
     ELSE Or(rawPartyName, JStr("Independent"))

\* index.ts 1096-1113
shortNames ==
  <<Entry("Australian Labor Party", "ALP"),
    Entry("Labor Party", "ALP"),
    Entry("Labor", "ALP"),
    Entry("Liberal National Party", "LNP"),
    Entry("Liberal National", "LNP"),
    Entry("Liberal Party", "LIB"),
    Entry("Liberal", "LIB"),
    Entry("Country Liberal Party", "CLP"),
    Entry("Country Liberal", "CLP"),
    Entry("The Greens", "GRN"),
    Entry("Australian Greens", "GRN"),
    Entry("Greens", "GRN"),
    Entry("One Nation", "ON"),
    Entry("Pauline Hanson's One Nation", "PHON"),
    Entry("Katter's Australian Party", "KAP"),
    Entry("Independent", "IND")>>

LowerLetters == "abcdefghijklmnopqrstuvwxyz"
UpperLetters == "ABCDEFGHIJKLMNOPQRSTUVWXYZ"

\* c.toUpperCase() of one character
UpperChar(c) ==
  IF \E i \in 1..26 : CharAt(LowerLetters, i) = c
  THEN CharAt(UpperLetters, CHOOSE i \in 1..26 : CharAt(LowerLetters, i) = c)
  ELSE c

\* s.toUpperCase()
RECURSIVE toUpperCase(_)
toUpperCase(s) ==
  IF s = "" THEN "" ELSE UpperChar(Head(s)) \o toUpperCase(Tail(s))

\* words.map(word => word[0]).join(''): the first character of each word,
\* an empty word giving undefined, which join holds as ''
RECURSIVE firstLetters(_)
firstLetters(words) ==
  IF words = <<>> THEN ""
  ELSE (IF Head(words) = "" THEN "" ELSE CharAt(Head(words), 1))
         \o firstLetters(Tail(words))

generateShortName(fullName) ==
  IF fullName.t # "str" THEN JStr("UNK")
  ELSE Or(LiteralLookup(shortNames, fullName.s),
          JStr(toUpperCase(firstLetters(SplitSpace(fullName.s)))))

(***************************************************************************)
(* Tier A parser, index.ts 301-483.  A member record carries the fields    *)
(* that identify it; null is the rejection of an item.                     *)
(***************************************************************************)
NoMember == [t |-> "null"]

\* electorate is the property value found; a string is held as its text
Member(firstName, lastName, electorate, sourceUrl) ==
  [first_name |-> firstName, last_name |-> lastName,
   electorate_name |-> IF electorate.t = "str" THEN electorate.s ELSE electorate,
   source_url |-> sourceUrl]

ElectorateKeys ==
  <<"name", "electorate", "seat", "electorateName", "division", "district", "constituency">>

\* a validation that looks at the first name only
namesPresent_FirstOnly(firstName, lastName) == firstName # ""

\* the negation of !firstName || !lastName, index.ts 445
namesPresent(firstName, lastName) == firstName # "" /\ lastName # ""

\* the name split and the final validation, index.ts 436-448 (a winner name
\* that is no string throws at .trim() and the catch returns null)
MemberFromNames(electorate, winnerName, sourceUrl) ==
  IF ~Truthy(winnerName) THEN NoMember
  ELSE IF winnerName.t # "str" THEN NoMember
  ELSE LET nameParts == SplitSpace(Trim(winnerName.s))
           firstName == nameParts[1]
           lastName == JoinSpace(Tail(nameParts))
       IN IF ~namesPresent(firstName, lastName) THEN NoMember
          ELSE Member(firstName, lastName, electorate, sourceUrl)

\* v > 0 for a number v
Positive(v) ==
  CASE v.t = "num" -> v.n > 0
    [] v.t = "nan" -> FALSE

\* a - b for finite numbers
Minus(a, b) == JNum(a.n - b.n)

\* a margin that is the gap between the two percentages
marginPercentage_WinnerMinusLoser(winnerPercent, loserPercent) ==
  Minus(winnerPercent, loserPercent)

\* winnerTwoPartyPreferredPercent - 50, index.ts 431 and 666
marginPercentage(winnerPercent, loserPercent) == Minus(winnerPercent, JInt(50))

\* the two-party-preferred figures of a candidate, index.ts 404-412 and
\* 419-425: the percentage and the votes of the first data object found
\* under tppKeys, 0 when the candidate or the data object is missing
tppOf(candidate, tppKeys, pctKeys, votesKeys) ==
  LET tppData == IF Truthy(candidate) THEN FirstTruthy(candidate, tppKeys, JUndef)
                 ELSE JUndef
  IN IF Truthy(tppData)
     THEN [percent |-> extractPercentage(FirstTruthy(tppData, pctKeys, JStr("0"))),
           votes |-> extractVotes(FirstTruthy(tppData, votesKeys, JStr("0")))]
     ELSE [percent |-> JNum(0), votes |-> JNum(0)]

\* the party and result fields of the returned object, index.ts 428-433
\* and 460-477 (total_votes_cast, previous_margin_percentage,
\* swing_percentage and scraped_at are left out of the record)
WithResults(member, winnerParty, winnerTpp, loserTpp) ==
  IF member = NoMember THEN NoMember
  ELSE LET both == Positive(winnerTpp.votes) /\ Positive(loserTpp.votes) IN
    member @@
      [party_name |-> Text(winnerParty),
       party_short_name |-> Text(generateShortName(winnerParty)),
       current_margin_votes |->
         IF both THEN Minus(winnerTpp.votes, loserTpp.votes) ELSE JNum(0),
       current_margin_percentage |->
         IF both THEN marginPercentage(winnerTpp.percent, loserTpp.percent) ELSE JNum(0),
       winner_two_party_preferred_percent |-> winnerTpp.percent,
       loser_two_party_preferred_percent |-> loserTpp.percent,
       winner_two_party_preferred_votes |-> winnerTpp.votes,
       loser_two_party_preferred_votes |-> loserTpp.votes]

extractMemberFromABCJsonItem(item, sourceUrl) ==
  LET electorate == FirstTruthy(item, ElectorateKeys, JStr(""))
      leadingCandidate ==
        FirstTruthy(item, <<"leadingCandidate", "winner", "elected", "declared">>, JUndef)
      winnerName == FirstTruthy(leadingCandidate, <<"name", "candidateName">>, JStr(""))
      winnerParty == extractPartyName(Get(leadingCandidate, "party"))
      winnerTpp == tppOf(leadingCandidate, <<"predicted2CP", "simple2CP", "tpp">>,
                         <<"pct", "percent">>, <<"votes", "voteCount">>)
      trailingCandidate ==
        FirstTruthy(item, <<"trailingCandidate", "loser", "runnerUp">>, JUndef)
      loserTpp == tppOf(trailingCandidate, <<"predicted2CP", "simple2CP", "tpp">>,
                        <<"pct", "percent">>, <<"votes", "voteCount">>)
  IN IF ~Truthy(electorate) THEN NoMember
     ELSE IF ~Truthy(leadingCandidate) THEN NoMember
     ELSE WithResults(MemberFromNames(electorate, winnerName, sourceUrl),
                      winnerParty, winnerTpp, loserTpp)

\* findArrays, index.ts 321-330
RECURSIVE findArrays(_)
RECURSIVE findArraysIn(_)
findArrays(obj) ==
  IF obj.t = "arr" THEN obj.items
  ELSE IF obj.t = "obj" THEN findArraysIn(ObjectValues(obj))
  ELSE <<>>

\* the loop over Object.values(obj): the first non-empty result
findArraysIn(values) ==
  IF values = <<>> THEN <<>>
  ELSE LET result == findArrays(Head(values)) IN
    IF Len(result) > 0 THEN result ELSE findArraysIn(Tail(values))

\* the keys parseABCJsonData probes, in its order, index.ts 313-318
JsonKeys == <<"electorates", "results", "seats">>

\* the locator of parseABCJsonData, index.ts 309-333
locateElectorateData(data) ==
  IF data.t = "arr" THEN data.items
  ELSE IF Truthy(Get(data, "electorates")) /\ Get(data, "electorates").t = "arr"
       THEN Get(data, "electorates").items
  ELSE IF Truthy(Get(data, "results")) /\ Get(data, "results").t = "arr"
       THEN Get(data, "results").items
  ELSE IF Truthy(Get(data, "seats")) /\ Get(data, "seats").t = "arr"
       THEN Get(data, "seats").items
  ELSE findArrays(data)

\* an item loop that ends at the first item that gives no member
RECURSIVE membersOfJsonItems_StopAtNull(_, _)
membersOfJsonItems_StopAtNull(items, sourceUrl) ==
  IF items = <<>> THEN <<>>
  ELSE LET item == Head(items)
           member == IF Truthy(item) /\ IsObject(item)
                     THEN extractMemberFromABCJsonItem(item, sourceUrl)
                     ELSE NoMember
       IN IF member = NoMember THEN <<>>
          ELSE <<member>> \o membersOfJsonItems_StopAtNull(Tail(items), sourceUrl)

\* the item loop, index.ts 337-345
RECURSIVE membersOfJsonItems(_, _)
membersOfJsonItems(items, sourceUrl) ==
  IF items = <<>> THEN <<>>
  ELSE LET item == Head(items)
           member == IF Truthy(item) /\ IsObject(item)
                     THEN extractMemberFromABCJsonItem(item, sourceUrl)
                     ELSE NoMember
           rest == membersOfJsonItems(Tail(items), sourceUrl)
       IN IF member = NoMember THEN rest ELSE <<member>> \o rest

\* Object.keys(data) throws on null and the catch returns no member
parseABCJsonData(data, sourceUrl) ==
  IF data.t \in {"null", "undef"} THEN <<>>
  ELSE membersOfJsonItems(locateElectorateData(data), sourceUrl)

(***************************************************************************)
(* Tier B parser, index.ts 524-718.                                        *)
(***************************************************************************)
extractMemberFromABCApiItem(item, sourceUrl) ==
  LET electorate == FirstTruthy(item, ElectorateKeys, JStr(""))
      leadingCandidate == Get(item, "leadingCandidate")
      winnerName == Or(Get(leadingCandidate, "name"), JStr(""))
      winnerParty == extractPartyName(Get(leadingCandidate, "party"))
      winnerTpp == tppOf(leadingCandidate, <<"predicted2CP", "simple2CP">>,
                         <<"pct">>, <<"votes">>)
      loserTpp == tppOf(Get(item, "trailingCandidate"), <<"predicted2CP", "simple2CP">>,
                        <<"pct">>, <<"votes">>)
  IN IF ~Truthy(electorate) THEN NoMember
     ELSE IF ~Truthy(leadingCandidate) THEN NoMember
     ELSE WithResults(MemberFromNames(electorate, winnerName, sourceUrl),
                      winnerParty, winnerTpp, loserTpp)

ApiKeys == <<"electorates", "seats", "results", "candidates", "data", "content">>

\* findElectorateData, index.ts 531-562
RECURSIVE findElectorateData(_)
RECURSIVE findElectorateDataFlat(_)
RECURSIVE findElectorateDataKeys(_, _)
RECURSIVE findElectorateDataEntries(_)
findElectorateData(obj) ==
  IF obj.t = "arr" THEN findElectorateDataFlat(obj.items)
  ELSE IF obj.t = "obj" THEN findElectorateDataKeys(obj, ApiKeys)
  ELSE <<>>

\* obj.flatMap(item => findElectorateData(item))
findElectorateDataFlat(items) ==
  IF items = <<>> THEN <<>>
  ELSE findElectorateData(Head(items)) \o findElectorateDataFlat(Tail(items))

\* the loop over the preferred keys, then the loop over all entries
findElectorateDataKeys(obj, keys) ==
  IF keys = <<>> THEN findElectorateDataEntries(ObjectValues(obj))
  ELSE LET v == Get(obj, Head(keys)) IN
    IF Truthy(v) /\ v.t = "arr" THEN v.items
    ELSE IF Truthy(v) /\ v.t = "obj" /\ Len(findElectorateData(v)) > 0
         THEN findElectorateData(v)
    ELSE findElectorateDataKeys(obj, Tail(keys))

findElectorateDataEntries(values) ==
  IF values = <<>> THEN <<>>
  ELSE LET value == Head(values) IN
    IF IsObject(value) /\ Len(findElectorateData(value)) > 0
    THEN findElectorateData(value)
    ELSE findElectorateDataEntries(Tail(values))

RECURSIVE membersOfApiItems(_, _)
membersOfApiItems(items, sourceUrl) ==
  IF items = <<>> THEN <<>>
  ELSE LET item == Head(items)
           member == IF Truthy(item) /\ IsObject(item)
                     THEN extractMemberFromABCApiItem(item, sourceUrl)
                     ELSE NoMember
           rest == membersOfApiItems(Tail(items), sourceUrl)
       IN IF member = NoMember THEN rest ELSE <<member>> \o rest

parseABCApiData(data, sourceUrl) ==
  membersOfApiItems(findElectorateData(data), sourceUrl)

(***************************************************************************)
(* HTML parsers, index.ts 786-1057.  An HTML body is held as what the      *)
(* regular expressions of the parser find in it: jsonMatches, the parsed   *)
(* data of each script match whose text JSON.parse accepts, and cards,     *)
(* the candidate blocks, each with the texts its name, party and           *)
(* electorate patterns match ("" when a pattern does not match).           *)
(***************************************************************************)
\* the party and result fields of the object an HTML-tier extractor
\* returns, index.ts 949-966, 992-1009 and 1035-1050 (total_votes_cast,
\* previous_margin_percentage, swing_percentage and scraped_at are left out
\* of the record)
ResultRecord(member, partyName, marginVotes, marginPercent, winnerTpp, loserTpp) ==
  member @@
    [party_name |-> Text(partyName),
     party_short_name |-> Text(generateShortName(partyName)),
     current_margin_votes |-> marginVotes,
     current_margin_percentage |-> marginPercent,
     winner_two_party_preferred_percent |-> winnerTpp.percent,
     loser_two_party_preferred_percent |-> loserTpp.percent,
     winner_two_party_preferred_votes |-> winnerTpp.votes,
     loser_two_party_preferred_votes |-> loserTpp.votes]

\* the zeros the HTML extractors write for the two-party-preferred fields,
\* index.ts 1001-1004 and 1044-1047
NoTpp == [percent |-> JNum(0), votes |-> JNum(0)]

DataKeys == <<"candidates", "results", "electorates", "seats", "members">>

\* findElectionData, index.ts 884-904
RECURSIVE findElectionData(_)
RECURSIVE findElectionDataFlat(_)
RECURSIVE findElectionDataKeys(_, _)
findElectionData(obj) ==
  IF obj.t = "arr" THEN findElectionDataFlat(obj.items)
  ELSE IF obj.t = "obj" THEN findElectionDataKeys(obj, DataKeys)
  ELSE <<>>

findElectionDataFlat(items) ==
  IF items = <<>> THEN <<>>
  ELSE findElectionData(Head(items)) \o findElectionDataFlat(Tail(items))

findElectionDataKeys(obj, keys) ==
  IF keys = <<>> THEN findElectionDataFlat(ObjectValues(obj))
  ELSE LET v == Get(obj, Head(keys)) IN
    IF Truthy(v) /\ v.t = "arr" THEN v.items
    ELSE findElectionDataKeys(obj, Tail(keys))

\* the return of extractMemberFromDataObject, index.ts 949-972: an extractor
\* that threw has sent the call to the catch, which returns null
returnOfDataObject(member, partyName, marginVotes, marginPercent, winnerTpp, loserTpp) ==
  IF \E v \in {marginVotes, marginPercent, winnerTpp.percent, winnerTpp.votes,
               loserTpp.percent, loserTpp.votes} : v.t = "throw"
  THEN NoMember
  ELSE ResultRecord(member, partyName, marginVotes, marginPercent, winnerTpp, loserTpp)

\* extractMemberFromDataObject, index.ts 924-973 (a name that is no string
\* throws at .split, when .split is reached, an extractor may throw, and the
\* catch returns null)
extractMemberFromDataObject(obj, sourceUrl) ==
  LET name == FirstTruthy(obj, <<"name", "candidateName", "fullName">>, JStr(""))
      parts == IF name.t = "str" THEN SplitSpace(name.s) ELSE <<"">>
      firstName == Or(Get(obj, "firstName"), JStr(parts[1]))
      lastName == Or(Get(obj, "lastName"), JStr(JoinSpace(Tail(parts))))
      partyName == FirstTruthy(obj, <<"party", "partyName", "politicalParty">>, JStr(""))
      electorate == FirstTruthy(obj, <<"electorate", "seat", "division">>, JStr(""))
      splitThrows == name.t # "str"
                     /\ (~Truthy(Get(obj, "firstName")) \/ ~Truthy(Get(obj, "lastName")))
  IN IF splitThrows THEN NoMember
     ELSE IF Truthy(firstName) /\ Truthy(lastName) /\ Truthy(partyName) /\ Truthy(electorate)
          THEN returnOfDataObject(
                 Member(IF firstName.t = "str" THEN firstName.s ELSE firstName,
                        IF lastName.t = "str" THEN lastName.s ELSE lastName,
                        electorate, sourceUrl),
                 partyName,
                 extractVotes(FirstTruthy(obj, <<"marginVotes", "votes">>, JStr("0"))),
                 extractPercentage(FirstTruthy(obj, <<"marginPercent", "margin">>, JStr("0"))),
                 [percent |-> extractPercentage(Or(Get(obj, "winnerTPP"), JStr("0"))),
                  votes |-> extractVotes(Or(Get(obj, "winnerTPPVotes"), JStr("0")))],
                 [percent |-> extractPercentage(Or(Get(obj, "loserTPP"), JStr("0"))),
                  votes |-> extractVotes(Or(Get(obj, "loserTPPVotes"), JStr("0")))])
          ELSE NoMember

RECURSIVE membersOfDataObjects(_, _)
membersOfDataObjects(items, sourceUrl) ==
  IF items = <<>> THEN <<>>
  ELSE LET item == Head(items)
           member == IF Truthy(item) /\ IsObject(item)
                     THEN extractMemberFromDataObject(item, sourceUrl)
                     ELSE NoMember
           rest == membersOfDataObjects(Tail(items), sourceUrl)
       IN IF member = NoMember THEN rest ELSE <<member>> \o rest

extractMembersFromABCData(data, sourceUrl) ==
  membersOfDataObjects(findElectionData(data), sourceUrl)

\* extractMemberFromABCHTML, index.ts 975-1016: the name match holds at
\* least two words; marginMatch holds the two groups of the margin pattern,
\* and is empty when the text has no margin
extractMemberFromABCHTML(card, sourceUrl) ==
  IF card.nameMatch # "" /\ card.partyMatch # "" /\ card.electorateMatch # ""
  THEN LET parts == SplitSpace(card.nameMatch)
           marginMatch == card.marginMatch
       IN ResultRecord(Member(parts[1], JoinSpace(Tail(parts)), JStr(card.electorateMatch),
                              sourceUrl),
                       extractPartyName(JStr(card.partyMatch)),
                       IF marginMatch # <<>> THEN parseInt(StripCommas(marginMatch[1]))
                       ELSE JNum(0),
                       IF marginMatch # <<>> THEN parseFloat(marginMatch[2]) ELSE JNum(0),
                       NoTpp, NoTpp)
  ELSE NoMember

\* extractMemberFromNTECHTML, index.ts 1018-1057
extractMemberFromNTECHTML(row, sourceUrl) ==
  IF row.nameMatch # "" /\ row.partyMatch # "" /\ row.electorateMatch # ""
  THEN LET parts == SplitSpace(row.nameMatch) IN
         ResultRecord(Member(parts[1], JoinSpace(Tail(parts)), JStr(row.electorateMatch),
                             sourceUrl),
                      extractPartyName(JStr(row.partyMatch)), JNum(0), JNum(0), NoTpp, NoTpp)
  ELSE NoMember

RECURSIVE membersOfJsonMatches(_, _)
membersOfJsonMatches(matches, sourceUrl) ==
  IF matches = <<>> THEN <<>>
  ELSE extractMembersFromABCData(Head(matches), sourceUrl)
         \o membersOfJsonMatches(Tail(matches), sourceUrl)

RECURSIVE membersOfCards(_, _)
membersOfCards(cards, sourceUrl) ==
  IF cards = <<>> THEN <<>>
  ELSE LET member == extractMemberFromABCHTML(Head(cards), sourceUrl)
           rest == membersOfCards(Tail(cards), sourceUrl)
       IN IF member = NoMember THEN rest ELSE <<member>> \o rest

\* parseABCNewsHTML, index.ts 786-843: the pattern fallback runs only when
\* the script data gave no member
parseABCNewsHTML(html, sourceUrl) ==
  LET members == membersOfJsonMatches(html.jsonMatches, sourceUrl) IN
    IF Len(members) = 0 THEN membersOfCards(html.cards, sourceUrl) ELSE members

RECURSIVE membersOfRows(_, _)
membersOfRows(rows, sourceUrl) ==
  IF rows = <<>> THEN <<>>
  ELSE LET member == extractMemberFromNTECHTML(Head(rows), sourceUrl)
           rest == membersOfRows(Tail(rows), sourceUrl)
       IN IF member = NoMember THEN rest ELSE <<member>> \o rest

\* parseNTECHTML, index.ts 845-877
parseNTECHTML(html, sourceUrl) == membersOfRows(html.cards, sourceUrl)

(***************************************************************************)
(* The request handler and scrapeABCNews, index.ts 35-299.                 *)
(***************************************************************************)
\* a validation that forgets the year
requestRejected_StateOnly(stateCode, year) == ~Truthy(stateCode)

\* if (!stateCode || !year), index.ts 44
requestRejected(stateCode, year) == ~Truthy(stateCode) \/ ~Truthy(year)

abcUrl(stateCode, year) ==
  "https://www.abc.net.au/news/elections/" \o stateCode \o "/" \o year \o "/results"

\* a list that names the first endpoint three times
jsonEndpoints_Repeated(stateCode, year) ==
  LET first == "https://www.abc.net.au/dat/news/elections/" \o stateCode \o "/" \o year
                 \o "/results/electorates.json"
  IN <<first, first, first>>

jsonEndpoints(stateCode, year) ==
  LET base == "https://www.abc.net.au/dat/news/elections/" \o stateCode \o "/" \o year
                \o "/results/"
  IN <<base \o "electorates.json", base \o "summary.json", base \o "results.json">>

apiEndpoints(stateCode, year) ==
  <<"https://www.abc.net.au/news-web/api/loader/channelrefetch?name=ElectionElectorateList&year="
      \o year \o "&state=" \o stateCode>>

ntecUrl == "https://ntec.nt.gov.au/elections-and-voting/election-results"

\* a fallback that is tried for every state
ntecApplies_Always(stateCode) == TRUE

\* stateCode === 'nt', index.ts 256
ntecApplies(stateCode) == stateCode = "nt"

\* a result whose success does not look at the records
Envelope_AlwaysSuccess(members, errs) ==
  [success |-> TRUE, data |-> members, errors |-> errs, totalFound |-> Len(members)]

\* the result of scrapeABCNews, index.ts 284-289, as the handler sends it,
\* index.ts 62-67
Envelope(members, errs) ==
  [success |-> Len(members) > 0, data |-> members, errors |-> errs,
   totalFound |-> Len(members)]

\* a JSON loop without its break
jsonLoopBreaks_Never(members) == FALSE

\* members.length > 0 followed by break, index.ts 162-166
jsonLoopBreaks(members) == Len(members) > 0

(***************************************************************************)
(* State.                                                                  *)
(*   hpc: where the edge function is (idle, awaiting the fetch of a tier,  *)
(*   responded); request: the request received; jsonIdx: the index of the  *)
(*   JSON endpoint in flight; allMembers, errors: the accumulators of      *)
(*   scrapeABCNews; fetchLog: the URLs fetch was called with, in order;    *)
(*   response: the Response returned.                                      *)
(*   fn, arg, ret: the last call of a primitive extractor, its argument    *)
(*   and what it returned (or threw).                                      *)
(*   dedupCalled, dedupMembers, dedupResult: a call of removeDuplicates,   *)
(*   its argument and the list it returned.                                *)
(*   cpc: where a call of ScraperService.scrapeAllSources stands.          *)
(*   invoke: the promise of supabase.functions.invoke, timer: the 30 s     *)
(*   timer, race: the promise of Promise.race.                             *)
(*   invokeProgress: how far the request of the invocation has got.        *)
(*   settleLog: the settlements seen by the race, in order.                *)
(*   clientResult: what scrapeAllSources resolved with.                    *)
(***************************************************************************)
VARIABLES fn, arg, ret, dedupCalled, dedupMembers, dedupResult,
          hpc, request, jsonIdx, allMembers, errors, fetchLog, response,
          cpc, invoke, timer, race, invokeProgress, settleLog, clientResult,
          runs, stores,
          parties, electorates, mps, calls,
          membersState, scrapedDataForReview, selectedStateOption, progress,
          isLoading, awaited, lastInsert

extractVars == <<fn, arg, ret>>
dedupVars == <<dedupCalled, dedupMembers, dedupResult>>
chainVars == <<hpc, request, jsonIdx, allMembers, errors, fetchLog, response>>
clientVars == <<cpc, invoke, timer, race, invokeProgress, settleLog, clientResult>>
concVars == <<runs, stores>>
dbVars == <<parties, electorates, mps, calls>>
hookVars == <<membersState, scrapedDataForReview, selectedStateOption, progress,
              isLoading, awaited, lastInsert>>
vars == <<extractVars, dedupVars, chainVars, clientVars, concVars, dbVars, hookVars>>

ExtractIdle == fn = "none" /\ arg = JUndef /\ ret = JUndef
DedupIdle == dedupCalled = FALSE /\ dedupMembers = <<>> /\ dedupResult = <<>>

NoRequest == [method |-> "none"]
NoResponse == [status |-> 0]

ChainIdle ==
  /\ hpc = "idle" /\ request = NoRequest /\ jsonIdx = 0
  /\ allMembers = <<>> /\ errors = <<>> /\ fetchLog = <<>> /\ response = NoResponse

Pending == [state |-> "pending"]
Fulfilled(v) == [state |-> "fulfilled", value |-> v]
Rejected(e) == [state |-> "rejected", reason |-> e]

NoResult == [none |-> TRUE]

NoPromise == [state |-> "none"]

ClientIdle ==
  /\ cpc = "idle" /\ invoke = NoPromise /\ timer = "none" /\ race = NoPromise
  /\ invokeProgress = 0 /\ settleLog = <<>> /\ clientResult = NoResult

(***************************************************************************)
(* Two invocations of the edge function served by one isolate.             *)
(*   runs: for each invocation, where its scrapeABCNews stands (pc), its   *)
(*   stateCode and year, the index of its JSON endpoint in flight, the     *)
(*   URLs it fetched, the responses its fetches settled with, whether one  *)
(*   of its steps ran while the other invocation was in flight, and what   *)
(*   it returned.                                                          *)
(*   stores: the allMembers and errors arrays, one pair per invocation     *)
(*   (index.ts 132-133 declares them inside the function).                 *)
(***************************************************************************)
RunIds == {1, 2}

IdleRun ==
  [pc |-> "idle", stateCode |-> "", year |-> "", jsonIdx |-> 0, fetched |-> <<>>,
   seen |-> <<>>, overlapped |-> FALSE, result |-> NoResult]

\* const allMembers = [], const errors = [], index.ts 132-133
EmptyStore == [allMembers |-> <<>>, errors |-> <<>>]

ConcIdle ==
  /\ runs = [i \in RunIds |-> IdleRun]
  /\ stores = [i \in RunIds |-> EmptyStore]

(***************************************************************************)
(* The database behind DatabaseService.                                    *)
(*   parties, electorates, mps: the rows of the three tables.              *)
(*   calls: for each call of processAndInsertScrapedData, where it stands  *)
(*   (pc), its arguments, the index of the record of its loop, the party   *)
(*   and electorate found for that record, its counters, the rows it       *)
(*   wrote for each record, and what it returned.                          *)
(***************************************************************************)
CallIds == {1, 2}

PartyRow(id, name, shortName) == [id |-> id, name |-> name, short_name |-> shortName]

\* the parties registered before any scrape
RegisteredParties ==
  {PartyRow(1, "Labor Party", "ALP"), PartyRow(2, "The Greens", "GRN")}

\* a query that returned no row
NoRow == [id |-> 0]

IdleCall ==
  [pc |-> "idle", scrapedData |-> <<>>, stateId |-> "", idx |-> 0, party |-> NoRow,
   electorate |-> NoRow, mp |-> NoRow, insertedCount |-> 0, skippedMembers |-> <<>>,
   wrote |-> <<>>, result |-> NoResult]

DbIdle ==
  /\ parties = RegisteredParties /\ electorates = {} /\ mps = {}
  /\ calls = [c \in CallIds |-> IdleCall]

(***************************************************************************)
(* The state of the useParliamentaryData hook.  membersState is the hook's *)
(* members list, held as what the table shows: nothing, the database rows  *)
(* of one state, or the records of a scrape under review.  awaited holds   *)
(* the calls whose promise has not settled, each with the values its       *)
(* closure captured when the handler was called.                           *)
(***************************************************************************)
StateOption(id, name, code, electionYear, electionDate) ==
  [id |-> id, name |-> name, code |-> code, electionYear |-> electionYear,
   electionDate |-> electionDate]

\* STATE_OPTIONS, part_000 7-22
STATE_OPTIONS ==
  << StateOption("34e083cf", "Queensland", "qld", "2024", "2024-10-26"),
     StateOption("5c397f74", "Western Australia", "wa", "2025", "2025-03-08") >>

\* the null of useState<ScrapedMemberData[] | null>(null)
NullData == [t |-> "null"]

\* result.data of scrapeElections(code, electionYear): the records of that state
ScrapedData(code, electionYear) == [t |-> "arr", code |-> code, electionYear |-> electionYear]

\* useState<MemberWithDetails[]>([])
EmptyMembers == [kind |-> "empty"]

\* the data of getMembers(stateId): the rows joined to electorates of stateId
DatabaseRows(stateId) == [kind |-> "db", stateId |-> stateId]

\* reviewData of startScraping: result.data mapped to the display format
reviewData(data, option) ==
  [kind |-> "review", data |-> data, state_name |-> option.name,
   start_date |-> option.electionDate]

Progress(current, total, status) == [current |-> current, total |-> total, status |-> status]

NoInsert == [called |-> FALSE]

\* a call awaiting its promise, with the closure's selectedStateOption and
\* scrapedDataForReview; then is what the caller does after the await
Awaiting(op, option, data, then) == [op |-> op, option |-> option, data |-> data, then |-> then]

\* loadExistingData up to its await: setIsLoading(true), getMembers(selectedStateOption.id)
loadExistingData(option, then) == Awaiting("getMembers", option, NullData, then)

\* the state after the first render and its effect, which calls loadExistingData
HookIdle ==
  /\ membersState = EmptyMembers
  /\ scrapedDataForReview = NullData
  /\ selectedStateOption = STATE_OPTIONS[1]
  /\ progress = Progress(0, 0, "idle")
  /\ isLoading = TRUE
  /\ awaited = <<loadExistingData(STATE_OPTIONS[1], "return")>>
  /\ lastInsert = NoInsert

(***************************************************************************)
(* Calls of the primitive extractors on the values the contract names:     *)
(* numbers, strings, null and undefined.                                   *)
(***************************************************************************)
Alphabet == {"0", "7", ",", ".", "-", "+", "%", "x"}

RECURSIVE StringsOfLen(_)
StringsOfLen(n) ==
  IF n = 0 THEN {""}
  ELSE {s \o c : s \in StringsOfLen(n - 1), c \in Alphabet}

ShortStrings == UNION {StringsOfLen(n) : n \in 0..MaxStrLen}

SampleStrings == {"12,345 votes", "54.3%", "-2.1%", "+2.1", "45.7% of 25,000", "n/a"}

SampleNumbers ==
  {JInt(0), JInt(30000), JNum(543), JNum(25), JInt(0 - 5), JNum(0 - 25), JNaN, JInf}

ExtractInputs ==
  {JStr(s) : s \in ShortStrings \cup SampleStrings} \cup SampleNumbers \cup {JNull, JUndef}

CallExtractVotes ==
  /\ fn = "none"
  /\ \E v \in ExtractInputs :
       fn' = "extractVotes" /\ arg' = v /\ ret' = extractVotes(v)
  /\ UNCHANGED <<dedupVars, chainVars, clientVars, concVars, dbVars, hookVars>>

CallExtractPercentage ==
  /\ fn = "none"
  /\ \E v \in ExtractInputs :
       fn' = "extractPercentage" /\ arg' = v /\ ret' = extractPercentage(v)
  /\ UNCHANGED <<dedupVars, chainVars, clientVars, concVars, dbVars, hookVars>>

CallExtractSwing ==
  /\ fn = "none"
  /\ \E v \in ExtractInputs :
       fn' = "extractSwing" /\ arg' = v /\ ret' = extractSwing(v)
  /\ UNCHANGED <<dedupVars, chainVars, clientVars, concVars, dbVars, hookVars>>

\* the caller takes the result; the next call starts afresh
ExtractReturn ==
  /\ fn # "none"
  /\ fn' = "none" /\ arg' = JUndef /\ ret' = JUndef
  /\ UNCHANGED <<dedupVars, chainVars, clientVars, concVars, dbVars, hookVars>>

ExtractInit == ExtractIdle /\ DedupIdle /\ ChainIdle /\ ClientIdle /\ ConcIdle /\ DbIdle
  /\ HookIdle

ExtractNext ==
  CallExtractVotes \/ CallExtractPercentage \/ CallExtractSwing \/ ExtractReturn

ExtractSpec == ExtractInit /\ [][ExtractNext]_vars

\* the documented examples of the extractors
ExtractExamples ==
  /\ extractVotes(JStr("12,345 votes")) = JInt(12345)
  /\ extractVotes(JStr("")) = JInt(0)
  /\ extractPercentage(JStr("54.3%")) = JNum(543)
  /\ extractSwing(JStr("-2.1%")) = JNum(0 - 21)
  /\ extractSwing(JStr("+2.1")) = JNum(21)
  /\ extractPercentage(JStr("-2.1%")) = JNum(21)
  /\ extractVotes(JStr(",")) = JInt(0)
  /\ extractVotes(JNum(0 - 25)) = JInt(0 - 3)

\* C9: extractVotes, extractPercentage and extractSwing are total: on a
\* (finite) number, a string, null or undefined each returns a finite number
\* without throwing, and returns 0 when the input holds no digit.
C9_ExtractorsTotal ==
  (fn # "none" /\ arg.t \in {"num", "str", "null", "undef"}) =>
    /\ ret.t = "num"
    /\ (arg.t \in {"null", "undef"} \/ (arg.t = "str" /\ FirstIn(arg.s, Digits, 1) = 0))
         => ret = JNum(0)

\* C10: extractVotes always returns an integer >= 0: the floor of a numeric
\* input, the integer read from the first run of digits and separators of a
\* string, and never a negative or fractional value, negative numeric inputs
\* included.
C10_VotesNonNegativeInteger ==
  (fn = "extractVotes" /\ arg.t \in {"num", "str"}) =>
    /\ ret.t = "num" /\ ret.n >= 0 /\ ret.n % 10 = 0
    /\ arg.t = "num" => ret = MathFloor(arg)

(***************************************************************************)
(* Calls of removeDuplicates on short lists of members.  Each member       *)
(* carries its source_url, so that the first record of a key can be told   *)
(* from a later one.                                                       *)
(***************************************************************************)
DedupFirstNames == {"Anne", "Anne-Marie"}
DedupLastNames == {"Smith", "Marie-Smith"}
DedupElectorates == {"Cook", "Lilley"}
DedupUrls == {"electorates.json", "summary.json"}

DedupMembers ==
  [first_name : DedupFirstNames, last_name : DedupLastNames,
   electorate_name : DedupElectorates, source_url : DedupUrls]

RECURSIVE SeqsOfLen(_, _)
SeqsOfLen(S, n) ==
  IF n = 0 THEN {<<>>}
  ELSE {Append(q, x) : q \in SeqsOfLen(S, n - 1), x \in S}

SeqsUpTo(S, n) == UNION {SeqsOfLen(S, k) : k \in 0..n}

CallRemoveDuplicates ==
  /\ ~dedupCalled
  /\ \E members \in SeqsUpTo(DedupMembers, MaxDedupLen) :
       /\ dedupCalled' = TRUE
       /\ dedupMembers' = members
       /\ dedupResult' = removeDuplicates(members)
  /\ UNCHANGED <<extractVars, chainVars, clientVars, concVars, dbVars, hookVars>>

DedupReturn ==
  /\ dedupCalled
  /\ dedupCalled' = FALSE /\ dedupMembers' = <<>> /\ dedupResult' = <<>>
  /\ UNCHANGED <<extractVars, chainVars, clientVars, concVars, dbVars, hookVars>>

DedupInit == ExtractIdle /\ DedupIdle /\ ChainIdle /\ ClientIdle /\ ConcIdle /\ DbIdle
  /\ HookIdle

DedupNext == CallRemoveDuplicates \/ DedupReturn

DedupSpec == DedupInit /\ [][DedupNext]_vars

\* the natural key of a record
Triple(m) == <<m.first_name, m.last_name, m.electorate_name>>

\* the subsequence of L that keeps the first record of each triple
RECURSIVE FirstOfEachTriple(_, _)
FirstOfEachTriple(L, seenTriples) ==
  IF L = <<>> THEN <<>>
  ELSE IF Triple(Head(L)) \in seenTriples
       THEN FirstOfEachTriple(Tail(L), seenTriples)
       ELSE <<Head(L)>> \o FirstOfEachTriple(Tail(L), seenTriples \cup {Triple(Head(L))})

\* C8: removeDuplicates(L) is exactly the subsequence of L that keeps, in
\* order, the first record of each (first_name, last_name, electorate_name)
\* triple; records whose triples differ are both retained.
C8_FirstOfEachTriple ==
  dedupCalled => dedupResult = FirstOfEachTriple(dedupMembers, {})

(***************************************************************************)
(* Requests and upstream responses.                                        *)
(***************************************************************************)
Pair(k, v) == <<k, v>>

\* electorate items of a payload
ItemCook ==
  JObj(<<Pair("name", JStr("Cook")),
         Pair("leadingCandidate", JObj(<<Pair("name", JStr("Jane Smith")),
                                         Pair("party", JStr("Labor"))>>))>>)
ItemLilley ==
  JObj(<<Pair("electorate", JStr("Lilley")),
         Pair("leadingCandidate", JObj(<<Pair("name", JStr(" Anne  Marie Smith "))>>))>>)
ItemNoElectorate ==
  JObj(<<Pair("leadingCandidate", JObj(<<Pair("name", JStr("Jane Smith"))>>))>>)
ItemOneName ==
  JObj(<<Pair("name", JStr("Cook")),
         Pair("winner", JObj(<<Pair("name", JStr("Cher"))>>))>>)

ItemPool == {ItemCook, ItemLilley, ItemNoElectorate, ItemOneName}

ItemArrays == {JArr(items) : items \in SeqsUpTo(ItemPool, MaxItems)}

\* payloads of the JSON and API endpoints: an array of items, bare or under
\* a key, and payloads with no array
JsonPayloads ==
  ItemArrays
    \cup {JObj(<<Pair("electorates", a)>>) : a \in ItemArrays}
    \cup {JObj(<<Pair("meta", JObj(<<Pair("year", JStr("2024"))>>)),
                 Pair("page", JObj(<<Pair("list", a)>>))>>) : a \in ItemArrays}
    \cup {JNull, JStr("ok"), JObj(<<>>)}

\* candidate objects of script data
DataJane ==
  JObj(<<Pair("name", JStr("Jane Smith")), Pair("party", JStr("Labor")),
         Pair("electorate", JStr("Cook"))>>)
DataNoParty ==
  JObj(<<Pair("name", JStr("Anne Smith")), Pair("electorate", JStr("Lilley"))>>)

DataBob ==
  JObj(<<Pair("name", JStr("Bob Brown")), Pair("party", JStr("The Greens")),
         Pair("electorate", JStr("Ryan")), Pair("marginVotes", JStr("1,200")),
         Pair("marginPercent", JStr("3.4%"))>>)

ScriptData ==
  {JObj(<<Pair("candidates", JArr(items))>>) :
     items \in SeqsUpTo({DataJane, DataNoParty, DataBob}, MaxItems)}

\* the texts the patterns of an HTML extractor match in a fragment
Card(name, party, electorate) ==
  [nameMatch |-> name, partyMatch |-> party, electorateMatch |-> electorate,
   marginMatch |-> <<>>]

MarginCard(name, party, electorate, votes, percent) ==
  [nameMatch |-> name, partyMatch |-> party, electorateMatch |-> electorate,
   marginMatch |-> <<votes, percent>>]

CardPool ==
  {Card("Jane Smith", "Labor", "Jane Smith"), Card("", "", "Results"),
   MarginCard("Anne Smith", "LNP", "Anne Smith", "1,234", "5.2")}

HtmlBodies ==
  [jsonMatches : SeqsUpTo(ScriptData, 1), cards : SeqsUpTo(CardPool, MaxItems)]

Requests ==
  {[method |-> "OPTIONS", body |-> JUndef]}
    \cup {[method |-> "POST", body |-> b] : b \in {[t |-> "invalid"], JNull}}
    \cup {[method |-> "POST",
           body |-> JObj(<<Pair("stateCode", sc), Pair("year", yr)>>)] :
            sc \in {JUndef, JStr(""), JStr("qld"), JStr("nt"), JNum(50)},
            yr \in {JUndef, JStr(""), JStr("2024")}}

JsonResponses ==
  {[kind |-> "reject", message |-> "network error"],
   [kind |-> "status", status |-> 404],
   [kind |-> "nonjson"],
   [kind |-> "badjson", message |-> "Unexpected token < in JSON"]}
    \cup {[kind |-> "json", data |-> d] : d \in JsonPayloads}

ApiResponses ==
  {[kind |-> "reject", message |-> "network error"],
   [kind |-> "status", status |-> 500],
   [kind |-> "text"]}
    \cup {[kind |-> "json", data |-> d] : d \in JsonPayloads}
    \cup {[kind |-> "html", html |-> h] : h \in HtmlBodies}

HtmlResponses ==
  {[kind |-> "reject", message |-> "network error"],
   [kind |-> "status", status |-> 404]}
    \cup {[kind |-> "html", html |-> h] : h \in HtmlBodies}

(***************************************************************************)
(* The edge function, one action per stretch of code between two awaits.   *)
(***************************************************************************)
\* `${v}` of a template literal
TemplateStr(v) ==
  CASE v.t = "str" -> v.s
    [] v.t = "undef" -> "undefined"
    [] v.t = "null" -> "null"
    [] OTHER -> "[object Object]"

stateCodeOf(req) == TemplateStr(Get(req.body, "stateCode"))
yearOf(req) == TemplateStr(Get(req.body, "year"))

Respond(status, body) ==
  /\ hpc' = "responded"
  /\ response' = [status |-> status, body |-> body]

\* the return of scrapeABCNews and the handler's Response, index.ts 284-289
\* and 62-74
ReturnResult(members, errs) ==
  /\ Respond(200, Envelope(members, errs))
  /\ allMembers' = members /\ errors' = errs
  /\ UNCHANGED <<fetchLog, jsonIdx>>

CallFetch(url, nextPc, members, errs) ==
  /\ hpc' = nextPc
  /\ fetchLog' = Append(fetchLog, url)
  /\ allMembers' = members /\ errors' = errs
  /\ UNCHANGED response

\* index.ts 35-60 and 93-146: preflight, body parsing, validation, and the
\* call of scrapeABCNews up to its first fetch
HandleRequest ==
  /\ hpc = "idle"
  /\ \E req \in Requests :
       /\ request' = req
       /\ IF req.method = "OPTIONS"
          THEN /\ Respond(200, [text |-> "ok"])
               /\ UNCHANGED <<jsonIdx, allMembers, errors, fetchLog>>
          ELSE IF req.body.t # "obj"
          THEN /\ Respond(500, [success |-> FALSE, data |-> <<>>,
                                errors |-> <<"Edge function error: invalid request body">>,
                                totalFound |-> 0])
               /\ UNCHANGED <<jsonIdx, allMembers, errors, fetchLog>>
          ELSE IF requestRejected(Get(req.body, "stateCode"), Get(req.body, "year"))
          THEN /\ Respond(400, [error |-> "stateCode and year are required"])
               /\ UNCHANGED <<jsonIdx, allMembers, errors, fetchLog>>
          ELSE IF Get(req.body, "stateCode").t # "str"
          THEN /\ Respond(500, [success |-> FALSE, data |-> <<>>,
                                errors |-> <<"Edge function error: stateCode.toUpperCase is not a function">>,
                                totalFound |-> 0])
               /\ UNCHANGED <<jsonIdx, allMembers, errors, fetchLog>>
          ELSE /\ jsonIdx' = 1
               /\ CallFetch(jsonEndpoints(stateCodeOf(req), yearOf(req))[1],
                            "awaitJson", <<>>, <<>>)
  /\ UNCHANGED <<extractVars, dedupVars, clientVars, concVars, dbVars, hookVars>>

\* what follows the HTML tier, index.ts 255-289
AfterHtml(members, errs) ==
  IF Len(members) = 0 /\ ntecApplies(stateCodeOf(request))
  THEN CallFetch(ntecUrl, "awaitNtec", members, errs) /\ UNCHANGED jsonIdx
  ELSE ReturnResult(members, errs)

\* what follows the API loop, index.ts 247-253
AfterApiLoop(members, errs) ==
  IF Len(members) = 0
  THEN /\ CallFetch(abcUrl(stateCodeOf(request), yearOf(request)), "awaitHtml", members, errs)
       /\ UNCHANGED jsonIdx
  ELSE AfterHtml(members, errs)

\* what follows the JSON loop, index.ts 180-187
AfterJsonLoop(members, errs) ==
  IF Len(members) = 0
  THEN /\ CallFetch(apiEndpoints(stateCodeOf(request), yearOf(request))[1], "awaitApi",
                    members, errs)
       /\ UNCHANGED jsonIdx
  ELSE AfterApiLoop(members, errs)

\* one pass of the JSON loop from the settled fetch on, index.ts 146-178
SettleJson ==
  /\ hpc = "awaitJson"
  /\ \E resp \in JsonResponses :
       LET jsonUrl == jsonEndpoints(stateCodeOf(request), yearOf(request))[jsonIdx]
           members == IF resp.kind = "json" THEN parseABCJsonData(resp.data, jsonUrl)
                      ELSE <<>>
           pushed == IF Len(members) > 0 THEN allMembers \o members ELSE allMembers
           errs == IF resp.kind \in {"reject", "badjson"}
                   THEN Append(errors, "JSON endpoint " \o jsonUrl \o ": " \o resp.message)
                   ELSE errors
       IN IF jsonLoopBreaks(members) \/ jsonIdx = 3
          THEN AfterJsonLoop(pushed, errs)
          ELSE /\ jsonIdx' = jsonIdx + 1
               /\ CallFetch(jsonEndpoints(stateCodeOf(request), yearOf(request))[jsonIdx + 1],
                            "awaitJson", pushed, errs)
  /\ UNCHANGED <<request, extractVars, dedupVars, clientVars, concVars, dbVars, hookVars>>

\* the pass of the API loop from the settled fetch on, index.ts 192-244
SettleApi ==
  /\ hpc = "awaitApi"
  /\ \E resp \in ApiResponses :
       LET apiUrl == apiEndpoints(stateCodeOf(request), yearOf(request))[1]
           members == CASE resp.kind = "json" -> parseABCApiData(resp.data, apiUrl)
                        [] resp.kind = "html" -> parseABCNewsHTML(resp.html, apiUrl)
                        [] OTHER -> <<>>
           errs == IF resp.kind = "reject"
                   THEN Append(errors, "API endpoint " \o apiUrl \o ": " \o resp.message)
                   ELSE errors
       IN AfterApiLoop(allMembers \o members, errs)
  /\ UNCHANGED <<request, extractVars, dedupVars, clientVars, concVars, dbVars, hookVars>>

\* scrapeABCNewsHTML from the settled fetch on, index.ts 501-521, and the
\* merge of its result, index.ts 250-252
SettleHtml ==
  /\ hpc = "awaitHtml"
  /\ \E resp \in HtmlResponses :
       LET url == abcUrl(stateCodeOf(request), yearOf(request))
           htmlResult ==
             CASE resp.kind = "html" ->
                    [data |-> parseABCNewsHTML(resp.html, url), errors |-> <<>>]
               [] resp.kind = "status" ->
                    [data |-> <<>>,
                     errors |-> <<"ABC News HTML scraping failed: HTTP error! status: 404">>]
               [] OTHER ->
                    [data |-> <<>>,
                     errors |-> <<"ABC News HTML scraping failed: " \o resp.message>>]
       IN AfterHtml(allMembers \o htmlResult.data, errors \o htmlResult.errors)
  /\ UNCHANGED <<request, extractVars, dedupVars, clientVars, concVars, dbVars, hookVars>>

\* the NTEC fallback from the settled fetch on, index.ts 270-289
SettleNtec ==
  /\ hpc = "awaitNtec"
  /\ \E resp \in HtmlResponses :
       LET members == IF resp.kind = "html" THEN parseNTECHTML(resp.html, ntecUrl) ELSE <<>>
           errs == IF resp.kind = "reject"
                   THEN Append(errors, "NTEC scraping: " \o resp.message)
                   ELSE errors
       IN ReturnResult(allMembers \o members, errs)
  /\ UNCHANGED <<request, extractVars, dedupVars, clientVars, concVars, dbVars, hookVars>>

Init == ExtractIdle /\ DedupIdle /\ ChainIdle /\ ClientIdle /\ ConcIdle /\ DbIdle
  /\ HookIdle

Next == HandleRequest \/ SettleJson \/ SettleApi \/ SettleHtml \/ SettleNtec

Spec == Init /\ [][Next]_vars

(***************************************************************************)
(* Properties of the strategy chain and of the handler.                    *)
(***************************************************************************)
AwaitStates == {"awaitJson", "awaitApi", "awaitHtml", "awaitNtec"}

EnvelopeFields == {"success", "data", "errors", "totalFound"}

\* the handler has returned the result of scrapeABCNews
ChainReturned == hpc = "responded" /\ request.method = "POST" /\ response.status = 200

\* C1: short-circuit.  A step that leaves the run with at least one
\* extracted record calls fetch no more: not for a later endpoint of the
\* tier, not for a later tier.
C1_ShortCircuit == [][Len(allMembers') > 0 => fetchLog' = fetchLog]_vars

\* the first JSON endpoint yielded records and the run returned after that
\* single fetch
C1_Witness ==
  /\ ChainReturned /\ Len(allMembers) > 0
  /\ fetchLog = <<jsonEndpoints(stateCodeOf(request), yearOf(request))[1]>>

\* the attempt that settles in this step is the last one of the chain
LastAttempt ==
  \/ hpc = "awaitNtec"
  \/ hpc = "awaitHtml" /\ stateCodeOf(request) # "nt"

\* C2: each failed endpoint attempt (fetch rejected, status not 2xx, body
\* not parseable, zero records extracted) appends exactly one string to
\* errors, and the chain goes on to the next endpoint or tier.
C2_FailedAttemptAppendsOne ==
  [][(hpc \in AwaitStates /\ Len(allMembers') = 0) =>
       /\ Len(errors') = Len(errors) + 1
       /\ ~LastAttempt => hpc' \in AwaitStates]_vars

\* C3: full chain exhaustion.  When every attempt failed the result has
\* success = false, no record, and one error per failed attempt; a result
\* with success = false never has an empty errors list.
C3_ExhaustionErrors ==
  (ChainReturned /\ ~response.body.success) =>
    /\ response.body.data = <<>>
    /\ Len(response.body.errors) = Len(fetchLog)
    /\ response.body.errors # <<>>

\* C4: the handler answers every request body with the result envelope
\* {success, data, errors, totalFound}, whatever the upstream fetches do.
C4_AlwaysEnvelope ==
  (hpc = "responded" /\ request.method = "POST") =>
    DOMAIN response.body = EnvelopeFields

\* the request is an object without a (non-empty) stateCode or year
MalformedInput ==
  /\ request.method = "POST" /\ request.body.t = "obj"
  /\ \/ ~Truthy(Get(request.body, "stateCode"))
     \/ ~Truthy(Get(request.body, "year"))

NoDuplicateTriples(members) ==
  \A i, j \in 1..Len(members) : Triple(members[i]) = Triple(members[j]) => i = j

\* C7: the records of every returned result are deduplicated by
\* (first_name, last_name, electorate_name), and totalFound counts them.
C7_ResultDeduplicated ==
  ChainReturned =>
    /\ NoDuplicateTriples(response.body.data)
    /\ response.body.totalFound = Len(response.body.data)

\* a record without two-party-preferred data
NoTppRecord(member, partyName, shortName) ==
  member @@
    [party_name |-> partyName, party_short_name |-> shortName,
     current_margin_votes |-> JNum(0), current_margin_percentage |-> JNum(0),
     winner_two_party_preferred_percent |-> JNum(0),
     loser_two_party_preferred_percent |-> JNum(0),
     winner_two_party_preferred_votes |-> JNum(0),
     loser_two_party_preferred_votes |-> JNum(0)]

ExampleJane ==
  NoTppRecord(Member("Jane", "Smith", JStr("Cook"), "u"), "Australian Labor Party", "ALP")

\* worked examples of the parsers
ParserExamples ==
  /\ parseABCJsonData(JArr(<<ItemCook, ItemLilley, ItemOneName, ItemNoElectorate>>), "u")
       = <<ExampleJane,
           NoTppRecord(Member("Anne", " Marie Smith", JStr("Lilley"), "u"),
                       "Independent", "IND")>>
  /\ parseABCJsonData(JObj(<<Pair("page", JObj(<<Pair("list", JArr(<<ItemCook>>))>>))>>), "u")
       = <<ExampleJane>>
  /\ parseABCJsonData(JNull, "u") = <<>>
  /\ parseABCApiData(JArr(<<ItemCook>>), "u") = <<>>
  /\ parseABCApiData(JObj(<<Pair("electorates", JArr(<<ItemCook, ItemOneName>>))>>), "u")
       = <<ExampleJane>>
  /\ parseABCNewsHTML([jsonMatches |-> <<JObj(<<Pair("candidates", JArr(<<DataJane, DataNoParty>>))>>)>>,
                       cards |-> <<>>], "u")
       = <<NoTppRecord(Member("Jane", "Smith", JStr("Cook"), "u"), "Labor", "ALP")>>
  /\ parseABCNewsHTML([jsonMatches |-> <<JObj(<<Pair("candidates", JArr(<<DataBob>>))>>)>>,
                       cards |-> <<>>], "u")
       = <<[NoTppRecord(Member("Bob", "Brown", JStr("Ryan"), "u"), "The Greens", "GRN")
              EXCEPT !.current_margin_votes = JInt(1200),
                     !.current_margin_percentage = JNum(34)]>>
  /\ parseABCNewsHTML([jsonMatches |-> <<>>,
                       cards |-> <<Card("Jane Smith", "Labor", "Jane Smith")>>], "u")
       = <<NoTppRecord(Member("Jane", "Smith", JStr("Jane Smith"), "u"),
                       "Australian Labor Party", "ALP")>>
  /\ parseABCNewsHTML([jsonMatches |-> <<>>,
                       cards |-> <<MarginCard("Anne Smith", "LNP", "Anne Smith", "1,234", "5.2")>>],
                      "u")
       = <<[NoTppRecord(Member("Anne", "Smith", JStr("Anne Smith"), "u"),
                        "Liberal National Party", "LNP")
              EXCEPT !.current_margin_votes = JInt(1234),
                     !.current_margin_percentage = JNum(52)]>>
  /\ extractPartyName(JStr("ALP")) = JStr("Australian Labor Party")
  /\ extractPartyName(JObj(<<Pair("short", JStr("LNP"))>>)) = JStr("Liberal National Party")
  /\ extractPartyName(JStr("Labour")) = JStr("Labour")
  /\ extractPartyName(JNull) = JStr("Independent")
  /\ generateShortName(JStr("United Australia Party")) = JStr("UAP")
  /\ generateShortName(JStr("Jane  smith")) = JStr("JS")
  /\ generateShortName(JStr("")) = JStr("")
  /\ generateShortName(JNull) = JStr("UNK")
  /\ generateShortName(JStr("Greens")) = JStr("GRN")

(***************************************************************************)
(* ScraperService.scrapeAllSources: the invocation of the edge function    *)
(* raced against a 30 s timer.                                             *)
(***************************************************************************)
\* String.prototype.includes
includes(s, sub) ==
  \E i \in 1..(Len(s) - Len(sub) + 1) : SubSeq(s, i, i + Len(sub) - 1) = sub

Error(message) == [isError |-> TRUE, message |-> message]

\* the rejection of the timer promise, scraper.ts 36-38
TimeoutError == Error("Request timeout after 30 seconds")

ClientFailure(errorMessage) ==
  [success |-> FALSE, data |-> <<>>, errors |-> <<errorMessage>>, totalFound |-> 0]

\* scraper.ts 9-20
NotConfiguredResult ==
  [success |-> FALSE, data |-> <<>>,
   errors |-> <<"Supabase is not configured properly. Please ensure you have:",
                "1. Created a .env file in your project root",
                "2. Added your VITE_SUPABASE_URL from your Supabase project settings",
                "3. Added your VITE_SUPABASE_ANON_KEY from your Supabase project settings",
                "4. Restarted your development server after adding the .env file">>,
   totalFound |-> 0]

\* the message for an error returned by the invocation, scraper.ts 45-53
invokeErrorMessage(message) ==
  IF includes(message, "Failed to fetch") \/ includes(message, "fetch")
  THEN "Unable to connect to Supabase. Please check your internet connection and Supabase configuration."
  ELSE IF includes(message, "Function not found")
  THEN "The scrape-election-data edge function was not found. Please ensure it is deployed to your Supabase project."
  ELSE IF includes(message, "Unauthorized")
  THEN "Unauthorized access to edge function. Please check your Supabase anon key."
  ELSE "Edge function error: " \o message

\* the message of the catch block, scraper.ts 84-95
catchMessage(error) ==
  IF error.isError
  THEN IF includes(error.message, "Failed to fetch")
       THEN "Network error: Unable to connect to Supabase. Please check your internet connection and ensure your Supabase URL and keys are correct."
       ELSE IF includes(error.message, "Request timeout")
       THEN "Request timeout: The edge function took too long to respond. Please try again."
       ELSE "Error: " \o error.message
  ELSE "Scraping service error: " \o error.text

\* data.key || fallback, for the fields of the envelope (an array is truthy,
\* and the fallback of totalFound is the falsy value itself)
FieldOr(data, key, fallback) ==
  IF key \in DOMAIN data THEN data[key] ELSE fallback

\* what scrapeAllSources returns once the race has settled, scraper.ts 41-103
resultOf(settled) ==
  IF settled.state = "rejected" THEN ClientFailure(catchMessage(settled.reason))
  ELSE IF settled.value.error # JNull
  THEN ClientFailure(invokeErrorMessage(settled.value.error.message))
  ELSE IF settled.value.data = JNull
  THEN ClientFailure("No data returned from edge function")
  ELSE [success |-> settled.value.data.success,
        data |-> FieldOr(settled.value.data, "data", <<>>),
        errors |-> FieldOr(settled.value.data, "errors", <<>>),
        totalFound |-> FieldOr(settled.value.data, "totalFound", 0)]

\* a race that a later settlement settles again
raceSettle_LastWins(current, outcome) == outcome

\* Promise.race, scraper.ts 32-39: the first settlement is the one that counts
raceSettle(current, outcome) ==
  IF current = Pending THEN outcome ELSE current

MemberJane == Member("Jane", "Smith", JStr("Cook"), "electorates.json")
MemberAnne == Member("Anne", "Smith", JStr("Lilley"), "electorates.json")

\* what supabase.functions.invoke settles with
InvokeOutcomes ==
  {Fulfilled([data |-> d, error |-> JNull]) :
     d \in {Envelope(<<MemberJane>>, <<>>),
            Envelope(<<MemberJane, MemberAnne>>, <<"JSON endpoint electorates.json: network error">>),
            Envelope(<<>>, <<"ABC News HTML scraping failed: network error">>),
            [success |-> TRUE],
            JNull}}
    \cup {Fulfilled([data |-> JNull, error |-> [message |-> msg]]) :
            msg \in {"Edge Function returned a non-2xx status code",
                     "Failed to fetch", "Function not found", "Unauthorized"}}
    \cup {Rejected(e) :
            e \in {Error("Failed to fetch"), Error("Request timeout at gateway"),
                   Error("boom"), [isError |-> FALSE, text |-> "aborted"]}}

\* a call that starts no timer
startTimer_Unarmed == "none"

\* setTimeout(() => reject(...), 30000), scraper.ts 36-38
startTimer == "armed"

\* scraper.ts 5-39: the configuration guard, then the invocation and the
\* timer are started and the function awaits their race
ScrapeAllSources ==
  /\ cpc = "idle"
  /\ \E isSupabaseConfigured \in BOOLEAN :
       IF ~isSupabaseConfigured
       THEN /\ cpc' = "returned" /\ clientResult' = NotConfiguredResult
            /\ UNCHANGED <<invoke, timer, race>>
       ELSE /\ cpc' = "awaiting" /\ invoke' = Pending /\ timer' = startTimer
            /\ race' = Pending
            /\ UNCHANGED clientResult
  /\ UNCHANGED <<invokeProgress, settleLog, extractVars, dedupVars, chainVars, concVars, dbVars, hookVars>>

\* a settlement reaches the race; when the race settles by it, the awaiting
\* function resumes and returns, scraper.ts 32-103
Settle(outcome) ==
  /\ race' = raceSettle(race, outcome)
  /\ IF cpc = "awaiting"
     THEN cpc' = "returned" /\ clientResult' = resultOf(race')
     ELSE UNCHANGED <<cpc, clientResult>>

\* the request of the invocation gets one step further (sent, received by
\* the edge function, answered), scraper.ts 33-35
InvokeProgress ==
  /\ invoke = Pending /\ invokeProgress < MaxProgress
  /\ invokeProgress' = invokeProgress + 1
  /\ UNCHANGED <<cpc, invoke, timer, race, settleLog, clientResult>>
  /\ UNCHANGED <<extractVars, dedupVars, chainVars, concVars, dbVars, hookVars>>

\* the invocation settles, scraper.ts 33-35
InvokeSettles ==
  /\ invoke = Pending
  /\ \E outcome \in InvokeOutcomes :
       /\ invoke' = outcome
       /\ Settle(outcome)
  /\ settleLog' = Append(settleLog, "invoke")
  /\ UNCHANGED <<timer, invokeProgress, extractVars, dedupVars, chainVars, concVars, dbVars, hookVars>>

\* the timer, which nothing clears, fires, scraper.ts 36-38
TimerFires ==
  /\ timer = "armed"
  /\ timer' = "fired"
  /\ Settle(Rejected(TimeoutError))
  /\ settleLog' = Append(settleLog, "timer")
  /\ UNCHANGED <<invoke, invokeProgress, extractVars, dedupVars, chainVars, concVars, dbVars, hookVars>>

ClientInit == ExtractIdle /\ DedupIdle /\ ChainIdle /\ ClientIdle /\ ConcIdle /\ DbIdle
  /\ HookIdle

ClientNext == ScrapeAllSources \/ InvokeProgress \/ InvokeSettles \/ TimerFires

ClientSpec == ClientInit /\ [][ClientNext]_vars

\* scrapeAllSources resolves with an envelope, whatever the race settles with
ClientResolvesEnvelope ==
  cpc = "returned" => DOMAIN clientResult = EnvelopeFields

TimeoutResult ==
  ClientFailure("Request timeout: The edge function took too long to respond. Please try again.")

\* the call has returned and the timer was the first to settle
TimedOut == cpc = "returned" /\ settleLog # <<>> /\ Head(settleLog) = "timer"

\* C6: orchestrator timeout.  When the timer fires before the invocation
\* settles, scrapeAllSources returns success = false, no record and exactly
\* one (timeout) error, whatever progress the invocation had made; a later
\* settlement of the abandoned invocation changes neither the result nor
\* the settled race nor the returned call.
C6_TimeoutAbandons ==
  /\ [](TimedOut => clientResult = TimeoutResult)
  /\ [][TimedOut => (clientResult' = clientResult /\ race' = race /\ cpc' = cpc)]_vars

\* the timer fired first, the invocation (which had made progress) settled
\* with records after the call had returned
C6_Witness ==
  /\ cpc = "returned" /\ settleLog = <<"timer", "invoke">>
  /\ invokeProgress > 0
  /\ invoke = Fulfilled([data |-> Envelope(<<MemberJane>>, <<>>), error |-> JNull])
  /\ clientResult = TimeoutResult

(***************************************************************************)
(* Calls of the parsers, the record extractors, the locators and the       *)
(* party functions on payloads drawn from small sets.  fn, arg and ret     *)
(* hold the call; a list returned is held as an array value.               *)
(***************************************************************************)
\* the property key : v of an object, left out when v is undefined
Opt(key, v) == IF v = JUndef THEN <<>> ELSE <<Pair(key, v)>>

\* two-party-preferred data objects: numbers, texts, a zero vote count
TppObjects ==
  {JObj(<<Pair("pct", JNum(543)), Pair("votes", JInt(1200))>>),
   JObj(<<Pair("pct", JStr("45.7%")), Pair("votes", JStr("1,000 votes"))>>),
   JObj(<<Pair("percent", JNum(480)), Pair("voteCount", JInt(900))>>),
   JObj(<<Pair("pct", JNum(600)), Pair("votes", JInt(0))>>)}

TppKeys == {"predicted2CP", "tpp"}

CandidateNames == {JStr("Jane Smith"), JStr("Cher"), JInt(7), JUndef}

Candidates ==
  {JObj(Opt("name", n) \o Opt("party", JStr("Labor"))) : n \in CandidateNames}
    \cup {JObj(Opt("name", n) \o <<Pair(k, d)>>) :
            n \in {JStr("Jane Smith")}, k \in TppKeys, d \in TppObjects}

RecordItems ==
  {JObj(Opt("name", e) \o Opt("leadingCandidate", w) \o Opt("trailingCandidate", l)) :
     e \in {JStr("Cook"), JUndef},
     w \in Candidates \cup {JUndef},
     l \in {c \in Candidates : Get(c, "name") = JStr("Jane Smith")} \cup {JUndef}}

PartyInputs ==
  {JStr(canonicalNames[i][1]) : i \in 1..Len(canonicalNames)}
    \cup {JStr("Labour"), JStr(""), JStr("United Australia Party"), JStr("constructor"),
          JObj(<<Pair("name", JStr("ALP"))>>), JObj(<<Pair("short", JStr("LNP"))>>),
          JObj(<<>>), JObj(<<Pair("name", JInt(7))>>), JNull, JUndef, JInt(7)}

ShortNameInputs ==
  {JStr(shortNames[i][1]) : i \in 1..Len(shortNames)}
    \cup {JStr("United Australia Party"), JStr("Jane  Smith"), JStr("labour"), JStr(""),
          JStr("constructor"), JNull, JUndef, JInt(7), JObj(<<>>), JArr(<<>>)}

\* arrays of items for the parse loops: items of the pool, null, a text
LoopItems == ItemPool \cup {JNull, JStr("Cook")}

LoopArrays == {JArr(items) : items \in SeqsUpTo(LoopItems, MaxItems)}

ParseUrl == "electorates.json"

Called(name, v, result) == fn' = name /\ arg' = v /\ ret' = result

CallExtractMemberFromABCJsonItem ==
  /\ fn = "none"
  /\ \E item \in RecordItems :
       Called("extractMemberFromABCJsonItem", item,
              extractMemberFromABCJsonItem(item, ParseUrl))
  /\ UNCHANGED <<dedupVars, chainVars, clientVars, concVars, dbVars, hookVars>>

CallExtractMemberFromABCApiItem ==
  /\ fn = "none"
  /\ \E item \in RecordItems :
       Called("extractMemberFromABCApiItem", item,
              extractMemberFromABCApiItem(item, ParseUrl))
  /\ UNCHANGED <<dedupVars, chainVars, clientVars, concVars, dbVars, hookVars>>

CallParseABCJsonData ==
  /\ fn = "none"
  /\ \E data \in LoopArrays \cup JsonPayloads :
       Called("parseABCJsonData", data, JArr(parseABCJsonData(data, ParseUrl)))
  /\ UNCHANGED <<dedupVars, chainVars, clientVars, concVars, dbVars, hookVars>>

CallParseABCApiData ==
  /\ fn = "none"
  /\ \E data \in LoopArrays \cup JsonPayloads :
       Called("parseABCApiData", data, JArr(parseABCApiData(data, ParseUrl)))
  /\ UNCHANGED <<dedupVars, chainVars, clientVars, concVars, dbVars, hookVars>>

\* payloads for the locators: arrays under preferred keys and under other
\* keys, in several insertion orders
ArrayCook == JArr(<<ItemCook>>)
ArrayLilley == JArr(<<ItemLilley>>)

LocatorPayloads ==
  {JObj(<<Pair("list", JArr(<<>>)), Pair("page", JObj(<<Pair("list", ArrayCook)>>))>>),
   JObj(<<Pair("note", JStr("ok")), Pair("items", ArrayCook)>>),
   JObj(<<Pair("other", ArrayLilley),
          Pair("electorates", JObj(<<Pair("list", ArrayCook)>>))>>),
   JObj(<<Pair("results", ArrayLilley), Pair("electorates", ArrayCook)>>),
   JObj(<<Pair("seats", ArrayCook), Pair("results", ArrayLilley)>>),
   JObj(<<Pair("other", ArrayLilley), Pair("data", JObj(<<Pair("seats", ArrayCook)>>))>>),
   JObj(<<Pair("list", JArr(<<>>)), Pair("empty", JObj(<<>>))>>)}

\* the locator of parseABCJsonData on its own
CallLocateElectorateData ==
  /\ fn = "none"
  /\ \E data \in (JsonPayloads \ {JNull}) \cup LocatorPayloads :
       Called("locateElectorateData", data, JArr(locateElectorateData(data)))
  /\ UNCHANGED <<dedupVars, chainVars, clientVars, concVars, dbVars, hookVars>>

CallFindElectorateData ==
  /\ fn = "none"
  /\ \E data \in JsonPayloads \cup LocatorPayloads :
       Called("findElectorateData", data, JArr(findElectorateData(data)))
  /\ UNCHANGED <<dedupVars, chainVars, clientVars, concVars, dbVars, hookVars>>

CallExtractPartyName ==
  /\ fn = "none"
  /\ \E partyData \in PartyInputs :
       Called("extractPartyName", partyData, extractPartyName(partyData))
  /\ UNCHANGED <<dedupVars, chainVars, clientVars, concVars, dbVars, hookVars>>

CallGenerateShortName ==
  /\ fn = "none"
  /\ \E fullName \in ShortNameInputs :
       Called("generateShortName", fullName, generateShortName(fullName))
  /\ UNCHANGED <<dedupVars, chainVars, clientVars, concVars, dbVars, hookVars>>

ParseInit == ExtractIdle /\ DedupIdle /\ ChainIdle /\ ClientIdle /\ ConcIdle /\ DbIdle
  /\ HookIdle

ParseNext ==
  \/ CallExtractMemberFromABCJsonItem \/ CallExtractMemberFromABCApiItem
  \/ CallParseABCJsonData \/ CallParseABCApiData
  \/ CallLocateElectorateData \/ CallFindElectorateData
  \/ CallExtractPartyName \/ CallGenerateShortName
  \/ ExtractReturn

ParseSpec == ParseInit /\ [][ParseNext]_vars

RecordExtractors == {"extractMemberFromABCJsonItem", "extractMemberFromABCApiItem"}

\* C11: margin derivation.  In a record of the JSON or of the API extractor,
\* when the winner and loser two-party-preferred vote counts are both > 0,
\* current_margin_votes is winner votes - loser votes and
\* current_margin_percentage is the winner percentage - 50; in every other
\* case both are 0.
C11_MarginDerivation ==
  (fn \in RecordExtractors /\ ret # NoMember) =>
    LET w == ret.winner_two_party_preferred_votes
        l == ret.loser_two_party_preferred_votes
    IN IF w.n > 0 /\ l.n > 0
       THEN /\ ret.current_margin_votes = JNum(w.n - l.n)
            /\ ret.current_margin_percentage
                 = JNum(ret.winner_two_party_preferred_percent.n - 500)
       ELSE /\ ret.current_margin_votes = JNum(0)
            /\ ret.current_margin_percentage = JNum(0)

\* a record with a winner count given as a number and a loser count read
\* from a text, and so a margin
C11_Witness ==
  /\ fn = "extractMemberFromABCJsonItem" /\ ret # NoMember
  /\ ret.winner_two_party_preferred_votes = JInt(1200)
  /\ ret.loser_two_party_preferred_votes = JInt(1000)
  /\ ret.current_margin_votes = JInt(200)
  /\ ret.current_margin_percentage = JNum(43)

\* the item names an electorate
HasElectorateName(item) ==
  \E i \in 1..Len(ElectorateKeys) : Truthy(Get(item, ElectorateKeys[i]))

LeadingKeys == <<"leadingCandidate", "winner", "elected", "declared">>

\* the item has a leading-candidate sub-object
HasLeadingCandidate(item) ==
  \E i \in 1..Len(LeadingKeys) : Truthy(Get(item, LeadingKeys[i]))

\* the winner name of the item, '' when there is none
WinnerNameOf(item) ==
  FirstTruthy(FirstTruthy(item, LeadingKeys, JUndef), <<"name", "candidateName">>, JStr(""))

\* a text that is a first name, a space, and more
SplitsInTwo(name) ==
  name.t = "str" /\ FirstIn(Trim(name.s), {" "}, 1) > 0

\* the items the claim says are rejected
RejectedItem(item) ==
  \/ ~HasElectorateName(item)
  \/ ~HasLeadingCandidate(item)
  \/ ~Truthy(WinnerNameOf(item))
  \/ ~SplitsInTwo(WinnerNameOf(item))

\* C12: record rejection.  An item with no electorate name, no
\* leading-candidate sub-object, no winner name, or a winner name that does
\* not split into a first and a last name gives null without raising, and
\* the loop of parseABCJsonData goes on: the list returned holds one
\* record for each item of the array that is not rejected.
C12_RejectionKeepsLooping ==
  /\ (fn = "extractMemberFromABCJsonItem" /\ RejectedItem(arg)) => ret = NoMember
  /\ (fn = "parseABCJsonData" /\ arg.t = "arr") =>
       Len(ret.items)
         = Cardinality({i \in 1..Len(arg.items) : ~RejectedItem(arg.items[i])})

\* a rejected item, then an accepted one, whose record is returned
C12_Witness ==
  /\ fn = "parseABCJsonData" /\ arg = JArr(<<ItemOneName, ItemCook>>)
  /\ Len(ret.items) = 1 /\ ret.items[1].electorate_name = "Cook"

\* C13: every record of every returned result, whichever tier produced it,
\* has a non-empty first_name, a non-empty last_name and a non-empty
\* electorate_name.
C13_NamesNonEmpty ==
  ChainReturned =>
    \A i \in 1..Len(response.body.data) :
      /\ response.body.data[i].first_name # ""
      /\ response.body.data[i].last_name # ""
      /\ response.body.data[i].electorate_name # ""

\* records returned by a run that went as far as the HTML page
C13_Witness ==
  /\ ChainReturned /\ Len(response.body.data) > 0
  /\ Len(fetchLog) = 5

AliasKeys == {canonicalNames[i][1] : i \in 1..Len(canonicalNames)}

\* C14: extractPartyName is idempotent on the alias table: for every key x
\* of the table, extractPartyName(extractPartyName(x)) = extractPartyName(x).
C14_CanonicalIdempotent ==
  (fn = "extractPartyName" /\ arg.t = "str" /\ arg.s \in AliasKeys) =>
    extractPartyName(ret) = ret

\* an alias has been mapped to its canonical name
C14_Witness ==
  /\ fn = "extractPartyName" /\ arg = JStr("ALP")
  /\ ret = JStr("Australian Labor Party")

ShortNameKeys == {shortNames[i][1] : i \in 1..Len(shortNames)}

\* C15: generateShortName never raises: a non-string input gives "UNK", a
\* string of the short-code table its entry, and any other string the
\* upper-cased first letters of its space-separated words.
C15_ShortNameTotal ==
  fn = "generateShortName" =>
    IF arg.t # "str" THEN ret = JStr("UNK")
    ELSE IF arg.s \in ShortNameKeys THEN ret = LookupKV(shortNames, arg.s)
    ELSE ret = JStr(toUpperCase(firstLetters(SplitSpace(arg.s))))

\* C19: when the payload handed to a locator is itself an array, the
\* locator returns that array, for the locator of parseABCJsonData and for
\* findElectorateData alike.
C19_LocatorReturnsArray ==
  (fn \in {"locateElectorateData", "findElectorateData"} /\ arg.t = "arr") =>
    ret = arg

\* the URLs of a run in the order of the tiers
ExpectedOrder(req) ==
  jsonEndpoints(stateCodeOf(req), yearOf(req))
    \o apiEndpoints(stateCodeOf(req), yearOf(req))
    \o <<abcUrl(stateCodeOf(req), yearOf(req))>>
    \o (IF stateCodeOf(req) = "nt" THEN <<ntecUrl>> ELSE <<>>)

IsPrefix(a, b) == Len(a) <= Len(b) /\ SubSeq(b, 1, Len(a)) = a

\* a run of scrapeABCNews has begun
RunStarted == request.method = "POST" /\ fetchLog # <<>>

\* C17: the tiers are attempted one after the other in the fixed order
\* JSON endpoints (electorates, summary, results), API endpoint, HTML page,
\* NTEC fallback.  The fetches made are an initial part of that list (with
\* the NTEC page on it only when stateCode is 'nt'), and a step issues at
\* most one fetch, only when every attempt so far has left no record.
C17_SequentialOrder ==
  /\ [](RunStarted => IsPrefix(fetchLog, ExpectedOrder(request)))
  /\ [][fetchLog' # fetchLog =>
          /\ Len(fetchLog') = Len(fetchLog) + 1
          /\ Len(allMembers') = 0]_vars

\* a run for 'nt' that fetched all six URLs
C17_Witness ==
  /\ ChainReturned /\ stateCodeOf(request) = "nt"
  /\ fetchLog = ExpectedOrder(request) /\ Len(fetchLog) = 6

\* C18: no retry.  A run fetches every URL at most once: at most five
\* fetches, six when stateCode is 'nt'.
C18_NoRetry ==
  RunStarted =>
    /\ \A i, j \in 1..Len(fetchLog) : fetchLog[i] = fetchLog[j] => i = j
    /\ Len(fetchLog) <= IF stateCodeOf(request) = "nt" THEN 6 ELSE 5

\* a run for 'qld' that failed at all five URLs and returned
C18_Witness ==
  /\ ChainReturned /\ stateCodeOf(request) = "qld"
  /\ Len(fetchLog) = 5 /\ ~response.body.success

(***************************************************************************)
(* Two invocations in one isolate.  Each request runs scrapeABCNews as an  *)
(* async function: its code between two awaits runs without interruption,  *)
(* and the steps of the two invocations interleave at their fetches.       *)
(***************************************************************************)
\* the (stateCode, year) pairs of the requests
ConcRequests ==
  {[stateCode |-> "qld", year |-> "2024"], [stateCode |-> "nt", year |-> "2024"],
   [stateCode |-> "qld", year |-> "2022"]}

\* what a fetch of each tier settles with
ConcJsonResponses ==
  {[kind |-> "reject", message |-> "network error"],
   [kind |-> "status", status |-> 404],
   [kind |-> "json", data |-> JArr(<<ItemCook>>)]}

ConcApiResponses ==
  {[kind |-> "reject", message |-> "network error"],
   [kind |-> "status", status |-> 500],
   [kind |-> "json", data |-> JObj(<<Pair("electorates", JArr(<<ItemLilley>>))>>)]}

ConcHtmlResponses ==
  {[kind |-> "reject", message |-> "network error"],
   [kind |-> "html",
    html |-> [jsonMatches |-> <<>>, cards |-> <<Card("Jane Smith", "Labor", "Jane Smith")>>]],
   [kind |-> "html", html |-> [jsonMatches |-> <<>>, cards |-> <<>>]]}

responsesOf(pc) ==
  CASE pc = "awaitJson" -> ConcJsonResponses
    [] pc = "awaitApi" -> ConcApiResponses
    [] pc \in {"awaitHtml", "awaitNtec"} -> ConcHtmlResponses

\* one pair of arrays for every invocation
storeOf_Shared(i) == 1

\* the arrays an invocation pushes to: allMembers and errors are consts of
\* the body of scrapeABCNews, index.ts 132-133, so every call has its own
storeOf(i) == i

\* scrapeABCNews up to its first fetch, index.ts 93-146
NewRun(stateCode, year) ==
  [IdleRun EXCEPT !.pc = "awaitJson", !.stateCode = stateCode, !.year = year,
                  !.jsonIdx = 1, !.fetched = <<jsonEndpoints(stateCode, year)[1]>>]

\* await fetch(url, ...), index.ts 146, 192, 501 and 264
runFetch(run, url, nextPc) == [run EXCEPT !.pc = nextPc, !.fetched = Append(@, url)]

\* return { success, data, errors, totalFound }, index.ts 284-289
runReturn(run, store) ==
  [run EXCEPT !.pc = "returned", !.result = Envelope(store.allMembers, store.errors)]

\* what follows the HTML tier, index.ts 255-289
runAfterHtml(run, store) ==
  IF Len(store.allMembers) = 0 /\ ntecApplies(run.stateCode)
  THEN runFetch(run, ntecUrl, "awaitNtec")
  ELSE runReturn(run, store)

\* what follows the API loop, index.ts 247-253
runAfterApiLoop(run, store) ==
  IF Len(store.allMembers) = 0
  THEN runFetch(run, abcUrl(run.stateCode, run.year), "awaitHtml")
  ELSE runAfterHtml(run, store)

\* what follows the JSON loop, index.ts 180-187
runAfterJsonLoop(run, store) ==
  IF Len(store.allMembers) = 0
  THEN runFetch(run, apiEndpoints(run.stateCode, run.year)[1], "awaitApi")
  ELSE runAfterApiLoop(run, store)

\* the records parsed from a settled fetch, index.ts 159-160, 207-232,
\* 501-515 and 271-273
membersOfResponse(run, resp) ==
  CASE run.pc = "awaitJson" ->
         IF resp.kind = "json"
         THEN parseABCJsonData(resp.data, jsonEndpoints(run.stateCode, run.year)[run.jsonIdx])
         ELSE <<>>
    [] run.pc = "awaitApi" ->
         IF resp.kind = "json"
         THEN parseABCApiData(resp.data, apiEndpoints(run.stateCode, run.year)[1])
         ELSE <<>>
    [] run.pc = "awaitHtml" ->
         IF resp.kind = "html"
         THEN parseABCNewsHTML(resp.html, abcUrl(run.stateCode, run.year))
         ELSE <<>>
    [] run.pc = "awaitNtec" ->
         IF resp.kind = "html" THEN parseNTECHTML(resp.html, ntecUrl) ELSE <<>>

\* the messages a settled fetch adds to errors, index.ts 174-177, 240-243,
\* 517-521 with 252, and 278-281
errorsOfResponse(run, resp) ==
  CASE run.pc = "awaitJson" ->
         IF resp.kind = "reject"
         THEN <<"JSON endpoint " \o jsonEndpoints(run.stateCode, run.year)[run.jsonIdx]
                  \o ": " \o resp.message>>
         ELSE <<>>
    [] run.pc = "awaitApi" ->
         IF resp.kind = "reject"
         THEN <<"API endpoint " \o apiEndpoints(run.stateCode, run.year)[1]
                  \o ": " \o resp.message>>
         ELSE <<>>
    [] run.pc = "awaitHtml" ->
         CASE resp.kind = "reject" -> <<"ABC News HTML scraping failed: " \o resp.message>>
           [] resp.kind = "status" ->
                <<"ABC News HTML scraping failed: HTTP error! status: 404">>
           [] OTHER -> <<>>
    [] run.pc = "awaitNtec" ->
         IF resp.kind = "reject" THEN <<"NTEC scraping: " \o resp.message>> ELSE <<>>

\* allMembers.push(...members) and errors.push(...), index.ts 163, 176, 210,
\* 242, 251-252, 273 and 280
storeAfter(run, store, resp) ==
  [allMembers |-> store.allMembers \o membersOfResponse(run, resp),
   errors |-> store.errors \o errorsOfResponse(run, resp)]

\* where the invocation goes once the fetch it awaited has settled and the
\* arrays hold what it pushed, index.ts 146-289
runAfter(run, store, resp) ==
  CASE run.pc = "awaitJson" ->
         IF jsonLoopBreaks(membersOfResponse(run, resp)) \/ run.jsonIdx = 3
         THEN runAfterJsonLoop(run, store)
         ELSE [runFetch(run, jsonEndpoints(run.stateCode, run.year)[run.jsonIdx + 1],
                        "awaitJson") EXCEPT !.jsonIdx = run.jsonIdx + 1]
    [] run.pc = "awaitApi" -> runAfterApiLoop(run, store)
    [] run.pc = "awaitHtml" -> runAfterHtml(run, store)
    [] run.pc = "awaitNtec" -> runReturn(run, store)

\* a request arrives and its invocation runs up to its first fetch,
\* index.ts 35-60 and 93-146
StartRun(i) ==
  /\ runs[i].pc = "idle"
  /\ \E req \in ConcRequests :
       /\ \A j \in RunIds \ {i} :
            <<runs[j].stateCode, runs[j].year>> # <<req.stateCode, req.year>>
       /\ runs' = [runs EXCEPT ![i] = NewRun(req.stateCode, req.year)]
       /\ stores' = [stores EXCEPT ![storeOf(i)] = EmptyStore]
  /\ UNCHANGED <<extractVars, dedupVars, chainVars, clientVars, dbVars, hookVars>>

\* the fetch an invocation awaits settles and the invocation runs to its
\* next await or to its return, index.ts 146-289
SettleRun(i) ==
  /\ runs[i].pc \in {"awaitJson", "awaitApi", "awaitHtml", "awaitNtec"}
  /\ \E resp \in responsesOf(runs[i].pc) :
       LET store == storeAfter(runs[i], stores[storeOf(i)], resp)
           run == runAfter(runs[i], store, resp)
           inFlight == \E j \in RunIds \ {i} :
                         runs[j].pc \in {"awaitJson", "awaitApi", "awaitHtml", "awaitNtec"}
       IN /\ runs' = [runs EXCEPT ![i] =
                        [run EXCEPT !.seen = Append(@, resp),
                                    !.overlapped = @ \/ inFlight]]
          /\ stores' = [stores EXCEPT ![storeOf(i)] = store]
  /\ UNCHANGED <<extractVars, dedupVars, chainVars, clientVars, dbVars, hookVars>>

ConcInit == ExtractIdle /\ DedupIdle /\ ChainIdle /\ ClientIdle /\ ConcIdle /\ DbIdle
  /\ HookIdle

ConcNext == \E i \in RunIds : StartRun(i) \/ SettleRun(i)

ConcurrentSpec == ConcInit /\ [][ConcNext]_vars

\* the invocation run with nothing else in the isolate, its fetches settling
\* with the given responses in order
RECURSIVE replay(_, _, _)
replay(run, store, responses) ==
  IF responses = <<>> \/ run.pc = "returned" THEN run
  ELSE LET after == storeAfter(run, store, Head(responses))
       IN replay(runAfter(run, after, Head(responses)), after, Tail(responses))

runAlone(stateCode, year, responses) ==
  replay(NewRun(stateCode, year), EmptyStore, responses).result

\* C16: whenever an invocation has returned, however its steps interleaved
\* with those of the other invocation, what it returned is what it returns
\* when it runs alone and its fetches settle with the same responses, and
\* every record it returned was read from a URL it fetched itself.
C16_NoInterference ==
  \A i \in RunIds :
    runs[i].pc = "returned" =>
      /\ runs[i].result = runAlone(runs[i].stateCode, runs[i].year, runs[i].seen)
      /\ \A k \in 1..Len(runs[i].result.data) :
           \E u \in 1..Len(runs[i].fetched) :
             runs[i].result.data[k].source_url = runs[i].fetched[u]

\* both invocations have returned, each took a step while the other was in
\* flight, both pushed an error and one of them a record
C16_Witness ==
  /\ \A i \in RunIds :
       /\ runs[i].pc = "returned" /\ runs[i].overlapped
       /\ Len(runs[i].result.errors) > 0
  /\ \E i \in RunIds : Len(runs[i].result.data) > 0
  /\ runs[1].result # runs[2].result

(***************************************************************************)
(* DatabaseService.processAndInsertScrapedData, database.ts 8-298.  Every  *)
(* query is awaited, so a call stands at one query at a time, and the      *)
(* queries of two calls interleave.  A query that the database refuses     *)
(* gives an error object; the rows of a table are held as a set and a      *)
(* select without order returns them in any order.                         *)
(***************************************************************************)
\* c.toLowerCase() of one character
LowerChar(c) ==
  IF \E i \in 1..26 : CharAt(UpperLetters, i) = c
  THEN CharAt(LowerLetters, CHOOSE i \in 1..26 : CharAt(UpperLetters, i) = c)
  ELSE c

\* s.toLowerCase()
RECURSIVE toLowerCase(_)
toLowerCase(s) ==
  IF s = "" THEN "" ELSE LowerChar(Head(s)) \o toLowerCase(Tail(s))

\* database.ts 284-295
DatabaseService_shortNames ==
  <<Entry("Australian Labor Party", "ALP"),
    Entry("Labor Party", "ALP"),
    Entry("Liberal National Party", "LNP"),
    Entry("Liberal Party", "LIB"),
    Entry("The Greens", "GRN"),
    Entry("Australian Greens", "GRN"),
    Entry("One Nation", "ON"),
    Entry("Pauline Hanson's One Nation", "PHON"),
    Entry("Katter's Australian Party", "KAP"),
    Entry("Independent", "IND")>>

\* database.ts 283-298, for a string
DatabaseService_generateShortName(fullName) ==
  Or(LiteralLookup(DatabaseService_shortNames, fullName),
     JStr(toUpperCase(firstLetters(SplitSpace(fullName)))))

\* .single(): the row when the query matches exactly one row, else no data
\* (error PGRST116)
single(rows) == IF Cardinality(rows) = 1 THEN CHOOSE r \in rows : TRUE ELSE NoRow

\* the argument of findParty, database.ts 23-26
partyDataOf(memberData) ==
  [name |-> memberData.party_name,
   short_name |-> IF memberData.party_short_name # ""
                  THEN memberData.party_short_name
                  ELSE Text(DatabaseService_generateShortName(memberData.party_name))]

\* the predicate of allParties.find, database.ts 143-147
fuzzyMatch(party, partyData) ==
  \/ includes(toLowerCase(party.name), toLowerCase(partyData.name))
  \/ includes(toLowerCase(partyData.name), toLowerCase(party.name))
  \/ party.short_name = partyData.short_name

\* the parties findParty can return when no query fails, NoRow standing for
\* its failure: exact name, then short name, then the first fuzzy match of
\* the rows in the order the select returned them, database.ts 101-158
findParty(table, partyData) ==
  LET byName == single({p \in table : p.name = partyData.name})
      byShortName == single({p \in table : p.short_name = partyData.short_name})
      fuzzy == {p \in table : fuzzyMatch(p, partyData)}
  IN IF byName.id # 0 THEN {byName}
     ELSE IF byShortName.id # 0 THEN {byShortName}
     ELSE IF fuzzy # {} THEN fuzzy
     ELSE {NoRow}

\* a guard that lets a record without a party through
partyMissing_Never(partyResult) == FALSE

\* !partyResult.success || !partyResult.party, database.ts 28
partyMissing(partyResult) == partyResult.id = 0

\* the records handed to the writer
DbRecord(first, last, party, shortName, electorate, marginVotes) ==
  [first_name |-> first, last_name |-> last, party_name |-> party,
   party_short_name |-> shortName, electorate_name |-> electorate,
   current_margin_votes |-> marginVotes]

RecJane == DbRecord("Jane", "Smith", "Labor Party", "ALP", "Cook", 120)
RecAnne == DbRecord("Anne", "Smith", "Australian Greens", "", "Lilley", 45)
RecBob == DbRecord("Bob", "Katter", "Katter's Australian Party", "KAP", "Traeger", 300)
RecJoe == DbRecord("Joe", "Bloggs", "labor", "LAB", "Cook", 80)

DbInputs == {<<RecBob, RecJane>>, <<RecAnne, RecBob>>, <<RecJoe>>}

StateIds == {"qld", "nt"}

ElectionDate == "2024-10-26"

\* the loop moves to its next record, or the call returns, database.ts 21
\* and 80-91
nextRecord(call) ==
  IF call.idx < Len(call.scrapedData)
  THEN [call EXCEPT !.pc = "findParty", !.idx = @ + 1, !.party = NoRow,
                    !.electorate = NoRow, !.mp = NoRow]
  ELSE [call EXCEPT !.pc = "returned",
                    !.result = [success |-> call.insertedCount > 0,
                                insertedCount |-> call.insertedCount,
                                skipped |-> Len(call.skippedMembers)]]

\* skippedMembers.push(...); continue, database.ts 29-31, 52-54 and 67-69
skipMember(call, why) ==
  LET memberData == call.scrapedData[call.idx] IN
    nextRecord([call EXCEPT !.skippedMembers =
                  Append(@, memberData.first_name \o " " \o memberData.last_name
                              \o " (" \o why \o ")")])

\* the rows a call wrote for the record of its loop
noteWrite(call, table, id) ==
  [call EXCEPT !.wrote[call.idx] = @ \cup {<<table, id>>}]

\* processAndInsertScrapedData up to its first query, database.ts 8-23
StartCall(c) ==
  /\ calls[c].pc = "idle"
  /\ \E scrapedData \in DbInputs, stateId \in StateIds, configured \in BOOLEAN :
       LET call == [IdleCall EXCEPT !.scrapedData = scrapedData, !.stateId = stateId,
                                    !.wrote = [k \in 1..Len(scrapedData) |-> {}]]
       IN calls' = [calls EXCEPT ![c] =
            IF ~configured
            THEN [call EXCEPT !.pc = "returned",
                              !.result = [success |-> FALSE,
                                          error |-> "Supabase not configured. Please set up your environment variables."]]
            ELSE nextRecord(call)]
  /\ UNCHANGED <<parties, electorates, mps>>
  /\ UNCHANGED <<extractVars, dedupVars, chainVars, clientVars, concVars, hookVars>>

\* findParty and the guard on its result, database.ts 23-32 and 101-162
FindParty(c) ==
  /\ calls[c].pc = "findParty"
  /\ \E selectError \in BOOLEAN :
       \E found \in findParty(parties, partyDataOf(calls[c].scrapedData[calls[c].idx])) :
         LET partyResult == IF selectError THEN NoRow ELSE found
             memberData == calls[c].scrapedData[calls[c].idx]
         IN calls' = [calls EXCEPT ![c] =
              IF partyMissing(partyResult)
              THEN skipMember(calls[c], "Party: " \o memberData.party_name)
              ELSE [calls[c] EXCEPT !.pc = "selectElectorate", !.party = partyResult]]
  /\ UNCHANGED <<parties, electorates, mps>>
  /\ UNCHANGED <<extractVars, dedupVars, chainVars, clientVars, concVars, hookVars>>

\* the select of upsertElectorate, database.ts 184-193
SelectElectorate(c) ==
  /\ calls[c].pc = "selectElectorate"
  /\ \E selectError \in BOOLEAN :
       LET memberData == calls[c].scrapedData[calls[c].idx]
           existingElectorate ==
             single({e \in electorates : /\ e.name = memberData.electorate_name
                                         /\ e.state_id = calls[c].stateId})
       IN calls' = [calls EXCEPT ![c] =
            IF selectError
            THEN skipMember(calls[c], "Electorate: " \o memberData.electorate_name)
            ELSE [calls[c] EXCEPT !.pc = "writeElectorate",
                                  !.electorate = existingElectorate]]
  /\ UNCHANGED <<parties, electorates, mps>>
  /\ UNCHANGED <<extractVars, dedupVars, chainVars, clientVars, concVars, hookVars>>

\* the update or the insert of upsertElectorate and the guard on its result,
\* database.ts 195-233 and 51-55
WriteElectorate(c) ==
  /\ calls[c].pc = "writeElectorate"
  /\ \E writeError \in BOOLEAN :
       LET memberData == calls[c].scrapedData[calls[c].idx]
           existing == calls[c].electorate
           id == IF existing.id # 0 THEN existing.id ELSE Cardinality(electorates) + 1
           stored == {e \in electorates : e.id = id}
           row == IF existing.id # 0
                  THEN {[e EXCEPT !.current_margin_votes = memberData.current_margin_votes,
                                  !.last_election_date = ElectionDate] : e \in stored}
                  ELSE {[id |-> id, name |-> memberData.electorate_name,
                         state_id |-> calls[c].stateId,
                         current_margin_votes |-> memberData.current_margin_votes,
                         last_election_date |-> ElectionDate, current_member_id |-> 0]}
       IN IF writeError
          THEN /\ calls' = [calls EXCEPT ![c] =
                              skipMember(calls[c], "Electorate: " \o memberData.electorate_name)]
               /\ UNCHANGED electorates
          ELSE /\ electorates' = (electorates \ stored) \cup row
               /\ calls' = [calls EXCEPT ![c] =
                    [noteWrite(calls[c], "electorates", id) EXCEPT
                       !.pc = "insertMP", !.electorate = single(row)]]
  /\ UNCHANGED <<parties, mps>>
  /\ UNCHANGED <<extractVars, dedupVars, chainVars, clientVars, concVars, hookVars>>

\* insertMP and the guard on its result, database.ts 58-70 and 242-264
InsertMP(c) ==
  /\ calls[c].pc = "insertMP"
  /\ \E insertError \in BOOLEAN :
       LET memberData == calls[c].scrapedData[calls[c].idx]
           newMP == [id |-> Cardinality(mps) + 1, first_name |-> memberData.first_name,
                     last_name |-> memberData.last_name, party_id |-> calls[c].party.id,
                     electorate_id |-> calls[c].electorate.id, start_date |-> ElectionDate]
       IN IF insertError
          THEN /\ calls' = [calls EXCEPT ![c] = skipMember(calls[c], "MP insertion failed")]
               /\ UNCHANGED mps
          ELSE /\ mps' = mps \cup {newMP}
               /\ calls' = [calls EXCEPT ![c] =
                    [noteWrite(calls[c], "mps", newMP.id) EXCEPT
                       !.pc = "updateCurrentMember", !.mp = newMP]]
  /\ UNCHANGED <<parties, electorates>>
  /\ UNCHANGED <<extractVars, dedupVars, chainVars, clientVars, concVars, hookVars>>

\* updateElectorateCurrentMember, whose result is not read, and
\* insertedCount++, database.ts 72-77 and 269-278
UpdateCurrentMember(c) ==
  /\ calls[c].pc = "updateCurrentMember"
  /\ \E updateError \in BOOLEAN :
       electorates' =
         IF updateError THEN electorates
         ELSE {IF e.id = calls[c].electorate.id
               THEN [e EXCEPT !.current_member_id = calls[c].mp.id] ELSE e :
               e \in electorates}
  /\ calls' = [calls EXCEPT ![c] = nextRecord([calls[c] EXCEPT !.insertedCount = @ + 1])]
  /\ UNCHANGED <<parties, mps>>
  /\ UNCHANGED <<extractVars, dedupVars, chainVars, clientVars, concVars, hookVars>>

PersistInit == ExtractIdle /\ DedupIdle /\ ChainIdle /\ ClientIdle /\ ConcIdle /\ DbIdle
  /\ HookIdle

PersistNext ==
  \E c \in CallIds :
    \/ StartCall(c) \/ FindParty(c) \/ SelectElectorate(c) \/ WriteElectorate(c)
    \/ InsertMP(c) \/ UpdateCurrentMember(c)

PersistSpec == PersistInit /\ [][PersistNext]_vars

\* the records of a call whose party findParty resolves among the parties
\* registered
Resolvable(memberData) == findParty(RegisteredParties, partyDataOf(memberData)) # {NoRow}

RecordsOf(c) == {calls[c].scrapedData[k] : k \in 1..Len(calls[c].scrapedData)}

RECURSIVE KeysIn(_)
KeysIn(v) ==
  CASE v.t = "obj" ->
         {v.kv[i][1] : i \in 1..Len(v.kv)} \cup UNION {KeysIn(v.kv[i][2]) : i \in 1..Len(v.kv)}
    [] v.t = "arr" -> UNION {KeysIn(v.items[i]) : i \in 1..Len(v.items)}
    [] OTHER -> {}

\* the first non-empty array met when the payload is walked depth first,
\* the properties of an object in insertion order; empty when there is none
RECURSIVE FirstNonEmptyArray(_)
RECURSIVE FirstNonEmptyArrayIn(_)
FirstNonEmptyArray(v) ==
  CASE v.t = "arr" -> v.items
    [] v.t = "obj" -> FirstNonEmptyArrayIn(ObjectValues(v))
    [] OTHER -> <<>>

FirstNonEmptyArrayIn(values) ==
  IF values = <<>> THEN <<>>
  ELSE IF FirstNonEmptyArray(Head(values)) # <<>> THEN FirstNonEmptyArray(Head(values))
  ELSE FirstNonEmptyArrayIn(Tail(values))

Range(seq) == {seq[i] : i \in 1..Len(seq)}

\* the preferred keys of the locator called
PreferredKeys == IF fn = "locateElectorateData" THEN JsonKeys ELSE ApiKeys

\* C21: a locator called on a payload that holds none of its preferred keys
\* at any depth returns the first non-empty array of a depth-first walk in
\* insertion order, and so returns an empty array only when the payload
\* holds no non-empty array.
C21_LocatorCompleteness ==
  (/\ fn \in {"locateElectorateData", "findElectorateData"}
   /\ arg.t = "obj"
   /\ KeysIn(arg) \cap Range(PreferredKeys) = {}) =>
    ret = JArr(FirstNonEmptyArray(arg))

\* the first preferred key that the payload holds
FirstPresent(obj) ==
  LET present == {i \in 1..Len(PreferredKeys) : Get(obj, PreferredKeys[i]) # JUndef}
  IN PreferredKeys[CHOOSE i \in present : \A j \in present : i <= j]

\* C22: a locator called on an object that holds a preferred key returns the
\* array under the first preferred key present, in the order of its list,
\* and when that key holds an object in which the search finds an array, it
\* returns what the search finds there; the insertion order of the payload
\* plays no part.
C22_KeyPrecedence ==
  (/\ fn \in {"locateElectorateData", "findElectorateData"}
   /\ arg.t = "obj"
   /\ \E i \in 1..Len(PreferredKeys) : Get(arg, PreferredKeys[i]) # JUndef) =>
    LET v == Get(arg, FirstPresent(arg)) IN
      /\ v.t = "arr" => ret = v
      /\ (v.t = "obj" /\ FirstNonEmptyArray(v) # <<>>) => ret = JArr(FirstNonEmptyArray(v))

(***************************************************************************)
(* The party and margin fields of the records a run returns.               *)
(***************************************************************************)
\* C23: in every record of the result a run returns, party_name is a name
\* that extractPartyName maps to itself, so no alias stands where its
\* canonical name should, and party_short_name is what generateShortName
\* gives for party_name.
C23_PartyCanonical ==
  ChainReturned =>
    \A i \in 1..Len(response.body.data) :
      LET record == response.body.data[i] IN
        /\ extractPartyName(JStr(record.party_name)) = JStr(record.party_name)
        /\ generateShortName(JStr(record.party_name)) = JStr(record.party_short_name)

\* C24: in every record of the result a run returns, current_margin_votes
\* is the winner's two-party-preferred votes minus the loser's when both
\* are above 0, and 0 otherwise.
C24_MarginVotesDerived ==
  ChainReturned =>
    \A i \in 1..Len(response.body.data) :
      LET record == response.body.data[i]
          winnerVotes == record.winner_two_party_preferred_votes
          loserVotes == record.loser_two_party_preferred_votes
      IN record.current_margin_votes =
           IF Positive(winnerVotes) /\ Positive(loserVotes)
           THEN Minus(winnerVotes, loserVotes) ELSE JNum(0)

(***************************************************************************)
(* Termination.  The client call and the edge function share no variable,  *)
(* so a behaviour follows one of the two programs.  The timer of the       *)
(* client fires when it is armed (setTimeout), and a fetch of the edge     *)
(* function that is awaited settles; nothing is assumed of the invocation, *)
(* which may stay pending for ever.                                        *)
(***************************************************************************)
LiveInit == ExtractIdle /\ DedupIdle /\ ChainIdle /\ ClientIdle /\ ConcIdle /\ DbIdle
  /\ HookIdle

LiveNext == (ChainIdle /\ ClientNext) \/ (ClientIdle /\ Next)

LiveSpec ==
  /\ LiveInit /\ [][LiveNext]_vars
  /\ WF_vars(TimerFires)
  /\ WF_vars(SettleJson) /\ WF_vars(SettleApi) /\ WF_vars(SettleHtml) /\ WF_vars(SettleNtec)

\* C25: a call of scrapeAllSources that awaits the race returns, also when
\* the invocation never settles, and a run of scrapeABCNews that awaits a
\* fetch comes to its response.
C25_EventuallyReturns ==
  /\ (cpc = "awaiting") ~> (cpc = "returned")
  /\ (hpc \in AwaitStates) ~> (hpc = "responded")

\* the call returned by the timer alone: the invocation is still pending
C25_Witness ==
  /\ cpc = "returned" /\ settleLog = <<"timer">> /\ invoke = Pending
  /\ clientResult = TimeoutResult

\* C27: in every result of scrapeABCNews that the handler sends, and in the
\* envelope the handler sends for an exception, success is true exactly
\* when the record list is not empty, totalFound is the length of the list,
\* and a result without success has no record.
C27_EnvelopeConsistent ==
  (hpc = "responded" /\ request.method = "POST" /\ response.status \in {200, 500}) =>
    /\ response.body.success = (Len(response.body.data) > 0)
    /\ response.body.totalFound = Len(response.body.data)
    /\ ~response.body.success => response.body.data = <<>>

\* a run returned two records after a failed attempt
C27_Witness ==
  /\ ChainReturned /\ response.body.success
  /\ response.body.totalFound = 2 /\ Len(response.body.errors) > 0

\* C26: the electorates table, empty at first, never holds two rows with
\* the same name and state_id, whatever calls of
\* processAndInsertScrapedData ran and however their queries interleaved.
C26_OneRowPerElectorate ==
  \A e1 \in electorates : \A e2 \in electorates :
    (e1.name = e2.name /\ e1.state_id = e2.state_id) => e1 = e2

(***************************************************************************)
(* The useParliamentaryData hook.  A handler runs up to its first await in *)
(* one step with the state of the render it was created in; what follows   *)
(* the await runs when the awaited call settles, with the values the       *)
(* handler's closure captured, whatever has been selected or scraped in    *)
(* between.  scrapeElections, processAndInsertScrapedData, getMembers and   *)
(* clearMembers settle in any order and with any outcome.                  *)
(***************************************************************************)
MaxAwaited == 3

Without(seq, i) == SubSeq(seq, 1, i - 1) \o SubSeq(seq, i + 1, Len(seq))

\* the arguments of DatabaseService.processAndInsertScrapedData, part_000 148-152
insertArguments(data, option) ==
  [called |-> TRUE, scrapedData |-> data, stateId |-> option.id,
   electionDate |-> option.electionDate]

\* setSelectedStateOption, and the effect on [selectedStateOption.id], part_000 265-267
SetSelectedStateOption ==
  /\ Len(awaited) < MaxAwaited
  /\ \E option \in Range(STATE_OPTIONS) :
       /\ selectedStateOption' = option
       /\ IF option.id # selectedStateOption.id
          THEN /\ isLoading' = TRUE
               /\ awaited' = Append(awaited, loadExistingData(option, "return"))
          ELSE UNCHANGED <<isLoading, awaited>>
  /\ UNCHANGED <<membersState, scrapedDataForReview, progress, lastInsert>>
  /\ UNCHANGED <<extractVars, dedupVars, chainVars, clientVars, concVars, dbVars>>

\* startScraping up to its await, part_000 48-78
StartScraping ==
  /\ Len(awaited) < MaxAwaited
  /\ progress' = Progress(2, 3, "processing")
  /\ awaited' = Append(awaited,
                       Awaiting("scrapeElections", selectedStateOption, NullData, "return"))
  /\ UNCHANGED <<membersState, scrapedDataForReview, selectedStateOption, isLoading,
                 lastInsert>>
  /\ UNCHANGED <<extractVars, dedupVars, chainVars, clientVars, concVars, dbVars>>

\* startScraping after its await, part_000 80-135
ScrapeSettles ==
  /\ \E i \in 1..Len(awaited) : \E outcome \in {"success", "failure", "throw"} :
       LET call == awaited[i] IN
         /\ call.op = "scrapeElections"
         /\ awaited' = Without(awaited, i)
         /\ IF outcome = "success"
            THEN LET data == ScrapedData(call.option.code, call.option.electionYear) IN
                   /\ scrapedDataForReview' = data
                   /\ membersState' = reviewData(data, call.option)
                   /\ progress' = Progress(3, 3, "review_pending")
            ELSE /\ progress' = Progress(IF outcome = "failure" THEN 2 ELSE 0, 3, "error")
                 /\ UNCHANGED <<scrapedDataForReview, membersState>>
  /\ UNCHANGED <<selectedStateOption, isLoading, lastInsert>>
  /\ UNCHANGED <<extractVars, dedupVars, chainVars, clientVars, concVars, dbVars>>

\* saveReviewedDataToDatabase up to its await, part_000 138-152
SaveReviewedDataToDatabase ==
  /\ Len(awaited) < MaxAwaited
  /\ IF scrapedDataForReview = NullData
     THEN UNCHANGED <<progress, awaited, lastInsert>>
     ELSE /\ progress' = [progress EXCEPT !.status = "processing"]
          /\ awaited' = Append(awaited,
                               Awaiting("processAndInsertScrapedData", selectedStateOption,
                                        scrapedDataForReview, "return"))
          /\ lastInsert' = insertArguments(scrapedDataForReview, selectedStateOption)
  /\ UNCHANGED <<membersState, scrapedDataForReview, selectedStateOption, isLoading>>
  /\ UNCHANGED <<extractVars, dedupVars, chainVars, clientVars, concVars, dbVars>>

\* saveReviewedDataToDatabase after its await, part_000 154-186
SaveSettles ==
  /\ \E i \in 1..Len(awaited) : \E outcome \in {"success", "failure", "throw"} :
       LET call == awaited[i] IN
         /\ call.op = "processAndInsertScrapedData"
         /\ IF outcome = "success"
            THEN /\ scrapedDataForReview' = NullData
                 /\ isLoading' = TRUE
                 /\ awaited' = Append(Without(awaited, i),
                                      loadExistingData(call.option, "completed"))
                 /\ UNCHANGED progress
            ELSE /\ progress' = Progress(3, 3, "error")
                 /\ awaited' = Without(awaited, i)
                 /\ UNCHANGED <<scrapedDataForReview, isLoading>>
  /\ UNCHANGED <<membersState, selectedStateOption, lastInsert>>
  /\ UNCHANGED <<extractVars, dedupVars, chainVars, clientVars, concVars, dbVars>>

\* cancelReview up to the await in loadExistingData, part_000 189-199
CancelReview ==
  /\ Len(awaited) < MaxAwaited
  /\ scrapedDataForReview' = NullData
  /\ progress' = Progress(0, 0, "idle")
  /\ isLoading' = TRUE
  /\ awaited' = Append(awaited, loadExistingData(selectedStateOption, "return"))
  /\ UNCHANGED <<membersState, selectedStateOption, lastInsert>>
  /\ UNCHANGED <<extractVars, dedupVars, chainVars, clientVars, concVars, dbVars>>

\* refreshData: loadExistingData, part_000 281
RefreshData ==
  /\ Len(awaited) < MaxAwaited
  /\ isLoading' = TRUE
  /\ awaited' = Append(awaited, loadExistingData(selectedStateOption, "return"))
  /\ UNCHANGED <<membersState, scrapedDataForReview, selectedStateOption, progress,
                 lastInsert>>
  /\ UNCHANGED <<extractVars, dedupVars, chainVars, clientVars, concVars, dbVars>>

\* what loadExistingData stores in members, part_000 39-40
loadedMembers(call, ok) ==
  IF ok THEN DatabaseRows(call.option.id) ELSE EmptyMembers

\* loadExistingData after its await, part_000 39-45, and what its caller does
\* next, part_000 159-166
LoadSettles ==
  /\ \E i \in 1..Len(awaited) : \E ok \in BOOLEAN :
       LET call == awaited[i] IN
         /\ call.op = "getMembers"
         /\ awaited' = Without(awaited, i)
         /\ membersState' = loadedMembers(call, ok)
         /\ isLoading' = FALSE
         /\ progress' = IF call.then = "completed"
                        THEN Progress(3, 3, "completed") ELSE progress
  /\ UNCHANGED <<scrapedDataForReview, selectedStateOption, lastInsert>>
  /\ UNCHANGED <<extractVars, dedupVars, chainVars, clientVars, concVars, dbVars>>

\* clearDatabase up to its await, part_000 202-204
ClearDatabase ==
  /\ Len(awaited) < MaxAwaited
  /\ awaited' = Append(awaited,
                       Awaiting("clearMembers", selectedStateOption, NullData, "return"))
  /\ UNCHANGED <<membersState, scrapedDataForReview, selectedStateOption, progress,
                 isLoading, lastInsert>>
  /\ UNCHANGED <<extractVars, dedupVars, chainVars, clientVars, concVars, dbVars>>

\* clearDatabase after its await, part_000 205-213
ClearSettles ==
  /\ \E i \in 1..Len(awaited) : \E success \in BOOLEAN :
       /\ awaited[i].op = "clearMembers"
       /\ awaited' = Without(awaited, i)
       /\ membersState' = IF success THEN EmptyMembers ELSE membersState
  /\ UNCHANGED <<scrapedDataForReview, selectedStateOption, progress, isLoading,
                 lastInsert>>
  /\ UNCHANGED <<extractVars, dedupVars, chainVars, clientVars, concVars, dbVars>>

HookInit ==
  ExtractIdle /\ DedupIdle /\ ChainIdle /\ ClientIdle /\ ConcIdle /\ DbIdle /\ HookIdle

HookNext ==
  \/ SetSelectedStateOption \/ StartScraping \/ ScrapeSettles
  \/ SaveReviewedDataToDatabase \/ SaveSettles \/ CancelReview \/ RefreshData
  \/ LoadSettles \/ ClearDatabase \/ ClearSettles

HookSpec == HookInit /\ [][HookNext]_vars

\* C28: whenever processAndInsertScrapedData has been called, the state id and
\* the election date it was given are those of the state option the reviewed
\* data was scraped for.
C28_SavedUnderScrapedState ==
  lastInsert.called =>
    \A option \in Range(STATE_OPTIONS) :
      option.code = lastInsert.scrapedData.code =>
        /\ lastInsert.stateId = option.id
        /\ lastInsert.electionDate = option.electionDate

\* C29: scrapedDataForReview is non-null exactly when the status is
\* 'review_pending' or a save of that data is awaited; with status 'error',
\* 'completed' or 'idle' it is null.
C29_ReviewStateConsistent ==
  LET saveAwaited ==
        \E i \in 1..Len(awaited) :
          /\ awaited[i].op = "processAndInsertScrapedData"
          /\ awaited[i].data = scrapedDataForReview
  IN /\ (scrapedDataForReview # NullData)
          <=> (progress.status = "review_pending" \/ saveAwaited)
     /\ progress.status \in {"error", "completed", "idle"}
          => scrapedDataForReview = NullData

\* C30: once nothing is awaited, the members list shows the scraped records
\* under review while the status is 'review_pending', and otherwise the
\* database rows of the selected state (none, where the query failed or the
\* state was cleared), never the rows of another state.
C30_NoStaleLoad ==
  awaited = <<>> =>
    IF progress.status = "review_pending"
    THEN membersState.kind = "review" /\ membersState.data = scrapedDataForReview
    ELSE membersState \in {DatabaseRows(selectedStateOption.id), EmptyMembers}

====
